---- MODULE Spec2Model ----
(***************************************************************************)
(* Model of the time compensation engine of the Pulse activity tracker     *)
(* (src/pulse/core/compensation_engine.py).                                *)
(*                                                                         *)
(* Seven specifications share this module:                                 *)
(*   Spec       one run of SmartScheduler.generate_optimal_schedule, one   *)
(*              step per iteration of its task loop;                       *)
(*   SpecMatch  the pure pairing functions of SmartScheduler applied to    *)
(*              one (task, slot) pair;                                     *)
(*   SpecDebt   TimeDebtCalculator.calculate_current_debt followed by      *)
(*              project_future_debt;                                       *)
(*   SpecEnergy EnergyProfileAnalyzer.analyze_energy_patterns, one step    *)
(*              per sample, called once or again on the same list, and     *)
(*              calculate_current_debt on that list;                       *)
(*   SpecMakeup TimeDebtCalculator.calculate_makeup_schedule, or           *)
(*              CompensationEngine._create_debt_compensation_tasks, on a   *)
(*              time debt;                                                 *)
(*   SpecRuns   two runs of generate_optimal_schedule on separate          *)
(*              arguments with their steps interleaved;                    *)
(*   SpecEngine CompensationEngine.analyze_and_compensate: the analysis,   *)
(*              then the steps of generate_optimal_schedule on the         *)
(*              generated slots, then the returned dict.                   *)
(*                                                                         *)
(* Numbers.  The code computes with Python floats (IEEE 754 binary64,      *)
(* round to nearest, ties to even), and so does the model: a float is a    *)
(* record [s, m, e] of value s * m * 2^e with 2^52 <= m < 2^53, and        *)
(* float_add, float_sub, float_mul and float_div round as the hardware     *)
(* does.  Hours worked, balances, deficits, projections, makeup sessions,  *)
(* task and slot durations, quality scores, energy matches and efficiency  *)
(* scores are such floats; sums are taken in the order the code takes      *)
(* them.  A datetime is naive, as every datetime of the engine is: it is    *)
(* the number of microseconds from 1970-01-01 00:00:00 to it, and          *)
(* timedelta(hours=h) rounds h hours to whole microseconds as CPython      *)
(* does.  datetime.timestamp() reads a naive datetime as local time: the   *)
(* time zone of the process is an input, and the timestamp is the float    *)
(* CPython computes.  The clock is an input: a                             *)
(* function that calls datetime.now() takes the sequence of the readings   *)
(* its calls return, one reading for each call, in the order of the        *)
(* calls.  Naturals beyond 32 bits (mantissas,                             *)
(* microseconds) are sequences of limbs of 14 bits, least significant      *)
(* first.  Sample durations are integer seconds.  The energy analyzer      *)
(* alone is computed in exact integers (scores doubled, means as           *)
(* fractions): its scores are integers or halves, whose sums are exact     *)
(* in floats; its means are compared with 85, 70 and 50, the difference    *)
(* of its two weekly means with 0.5, and the mean level of a period is     *)
(* rounded to an integer; and a mean of the samples drawn that is not      *)
(* exactly on such a bound is farther from it than the division rounds.    *)
(***************************************************************************)
EXTENDS Integers, Sequences, FiniteSets, TLC

VARIABLES
    \* ---- SmartScheduler.generate_optimal_schedule ----
    tasks,              \* the caller's task list (sequence of task records)
    available_slots,    \* the caller's slot list (sequence of slot object ids)
    slot_obj,           \* the slot objects: id -> TimeSlot fields (mutable)
    given_slots,        \* the slot objects as they were when the call began
    sorted_tasks,       \* local: tasks in processing order
    sorted_slots,       \* local: the candidate pool (sequence of slot ids)
    schedule,           \* local: task id -> schedule entry
    unscheduled_tasks,  \* local: tasks that found no slot, in order
    history,            \* tasks in the order the loop has processed them
    idx,                \* position of the task loop in sorted_tasks
    pc,                 \* "idle" | "start" | "loop" | "done"
    result,             \* the returned dict (once pc = "done")
    \* ---- pairing functions on one task and one slot ----
    m_task, m_slot, m_out,
    \* ---- TimeDebtCalculator ----
    activity_data,      \* the samples handed to calculate_current_debt
    period_days,        \* its period_days argument
    weekly_target,      \* self.weekly_target (hours)
    debt,               \* the TimeDebt returned
    projections,        \* the dict returned by project_future_debt
    dpc,                \* "idle" | "start" | "debt" | "projected"
    \* ---- EnergyProfileAnalyzer.analyze_energy_patterns ----
    energy_data,        \* the samples handed to the analyzer
    hourly_performance, \* local: hour -> scores, as (key, scores) pairs in
                        \* insertion order
    daily_patterns,     \* local: weekday -> scores, likewise
    e_idx,              \* position of the sample loop in energy_data
    epc,                \* "idle" | "start" | "loop" | "returned" | "debt"
                        \* | "raised"
    profile,            \* the dict returned by the latest call
    prev_profile,       \* the dict returned by the call before it
    data_debt,          \* calculate_current_debt of the same samples
    \* ---- TimeDebtCalculator.calculate_makeup_schedule ----
    makeup_debt,        \* the TimeDebt handed in
    preference,         \* the CompensationStrategy handed in
    makeup_schedule,    \* the list returned
    mpc,                \* "idle" | "start" | "returned" | "tasks"
    \* ---- CompensationEngine._create_debt_compensation_tasks ----
    user_preferences,   \* the preferences dict handed in
    makeup_clock,       \* what datetime.now() returns, read after read
    debt_tasks,         \* the list returned
    \* ---- two generate_optimal_schedule runs side by side ----
    runs,               \* run number -> the state of that run
    \* ---- CompensationEngine.analyze_and_compensate ----
    engine,             \* the arguments, locals and result of the call
    \* ---- the process ----
    local_zone          \* the local time zone, which datetime.timestamp() reads

schedVars == <<tasks, available_slots, slot_obj, given_slots, sorted_tasks,
               sorted_slots, schedule, unscheduled_tasks, history, idx, pc,
               result>>
matchVars == <<m_task, m_slot, m_out>>
debtVars  == <<activity_data, period_days, weekly_target, debt, projections, dpc>>
energyVars == <<energy_data, hourly_performance, daily_patterns, e_idx, epc,
                profile, prev_profile, data_debt>>
makeupVars == <<makeup_debt, preference, makeup_schedule, mpc,
                user_preferences, makeup_clock, debt_tasks>>
vars == <<schedVars, matchVars, debtVars, energyVars, makeupVars, runs, engine,
          local_zone>>

-----------------------------------------------------------------------------
(* Enumerations and records                                                *)

\* class EnergyLevel(Enum) and class TaskPriority(Enum): the ordinal values
LOW == 1
MEDIUM == 2
HIGH == 3
PEAK == 4
URGENT == 4
EnergyLevel == {LOW, MEDIUM, HIGH, PEAK}
TaskPriority == {LOW, MEDIUM, HIGH, URGENT}

\* CompensationTask.deadline is Optional[datetime]: None is modelled as <<-1>>,
\* which is no datetime of the model
NoDeadline == <<-1>>

Max(a, b) == IF a >= b THEN a ELSE b
Min(a, b) == IF a <= b THEN a ELSE b

\* Python's sorted(s, key=...): the stable sort of s, given the set less of
\* the index pairs <<i, j>> with key(s[i]) < key(s[j]).  The element at
\* position i of s lands at position Rank(i).
SortedBy(s, less) ==
    LET Rank(i) == 1 + Cardinality({j \in DOMAIN s :
                         \/ <<j, i>> \in less
                         \/ (<<i, j>> \notin less /\ <<j, i>> \notin less /\ j < i)})
    IN  [k \in 1..Len(s) |-> s[CHOOSE i \in DOMAIN s : Rank(i) = k]]

-----------------------------------------------------------------------------
(* Python floats                                                           *)
(*                                                                         *)
(* A float is an IEEE-754 binary64 number; each arithmetic operation       *)
(* returns the representable number nearest to the exact result, a tie     *)
(* going to the even significand.  A float is modelled as the record       *)
(* [s, m, e] of value s * m * 2^e with s in {-1, 1} and                    *)
(* 2^52 <= m < 2^53, and zero as FloatZero.  The significand m is a        *)
(* natural number written in base 2^14, least significant limb first,      *)
(* without leading zero limbs (a 53-bit number does not fit an integer of  *)
(* the checker).  Infinities, NaN, the sign of zero and subnormal numbers  *)
(* do not occur for the magnitudes the engine handles.                     *)

LimbBits == 14

LimbBase == 2 ^ LimbBits

Pow2(k) == 2 ^ k

RECURSIVE nat_norm(_)
nat_norm(x) ==
    IF x = <<>> THEN <<>>
    ELSE IF x[Len(x)] = 0 THEN nat_norm(SubSeq(x, 1, Len(x) - 1))
    ELSE x

nat_limb(x, i) == IF i >= 1 /\ i <= Len(x) THEN x[i] ELSE 0

RECURSIVE nat_of_int(_)
nat_of_int(n) ==
    IF n = 0 THEN <<>> ELSE <<n % LimbBase>> \o nat_of_int(n \div LimbBase)

RECURSIVE int_of_nat(_)
int_of_nat(x) ==
    IF x = <<>> THEN 0 ELSE Head(x) + LimbBase * int_of_nat(Tail(x))

RECURSIVE nat_add_from(_, _, _, _)
nat_add_from(x, y, i, carry) ==
    IF i > Len(x) /\ i > Len(y)
    THEN IF carry = 0 THEN <<>> ELSE <<carry>>
    ELSE LET t == nat_limb(x, i) + nat_limb(y, i) + carry
         IN  <<t % LimbBase>> \o nat_add_from(x, y, i + 1, t \div LimbBase)

nat_add(x, y) == nat_add_from(x, y, 1, 0)

\* x - y for x >= y
RECURSIVE nat_sub_from(_, _, _, _)
nat_sub_from(x, y, i, borrow) ==
    IF i > Len(x) THEN <<>>
    ELSE LET t == nat_limb(x, i) - nat_limb(y, i) - borrow
         IN  IF t < 0
             THEN <<t + LimbBase>> \o nat_sub_from(x, y, i + 1, 1)
             ELSE <<t>> \o nat_sub_from(x, y, i + 1, 0)

nat_sub(x, y) == nat_norm(nat_sub_from(x, y, 1, 0))

\* -1, 0 or 1 as x is below, equal to or above y
RECURSIVE nat_cmp_from(_, _, _)
nat_cmp_from(x, y, i) ==
    IF i = 0 THEN 0
    ELSE IF x[i] < y[i] THEN -1
    ELSE IF x[i] > y[i] THEN 1
    ELSE nat_cmp_from(x, y, i - 1)

nat_cmp(x, y) ==
    IF Len(x) < Len(y) THEN -1
    ELSE IF Len(x) > Len(y) THEN 1
    ELSE nat_cmp_from(x, y, Len(x))

\* x * k for 0 <= k <= LimbBase
RECURSIVE nat_scale_from(_, _, _, _)
nat_scale_from(x, k, i, carry) ==
    IF i > Len(x)
    THEN IF carry = 0 THEN <<>> ELSE <<carry>>
    ELSE LET t == x[i] * k + carry
         IN  <<t % LimbBase>> \o nat_scale_from(x, k, i + 1, t \div LimbBase)

nat_scale(x, k) == nat_norm(nat_scale_from(x, k, 1, 0))

nat_zeros(n) == [i \in 1..n |-> 0]

\* x * 2^k
nat_shl(x, k) ==
    IF x = <<>> THEN <<>>
    ELSE nat_zeros(k \div LimbBits) \o nat_scale(x, Pow2(k % LimbBits))

\* floor(x / 2^k)
nat_shr(x, k) ==
    LET q == k \div LimbBits
        r == k % LimbBits
        n == Len(x) - q
    IN  IF n <= 0 THEN <<>>
        ELSE nat_norm([i \in 1..n |->
                 (x[i + q] \div Pow2(r))
                 + (nat_limb(x, i + q + 1) % Pow2(r)) * Pow2(LimbBits - r)])

RECURSIVE nat_mul_from(_, _, _)
nat_mul_from(x, y, j) ==
    IF j > Len(y) THEN <<>>
    ELSE nat_add(nat_zeros(j - 1) \o nat_scale(x, y[j]), nat_mul_from(x, y, j + 1))

nat_mul(x, y) == nat_norm(nat_mul_from(x, y, 1))

RECURSIVE int_bit_length(_)
int_bit_length(n) == IF n = 0 THEN 0 ELSE 1 + int_bit_length(n \div 2)

nat_bit_length(x) ==
    IF x = <<>> THEN 0
    ELSE LimbBits * (Len(x) - 1) + int_bit_length(x[Len(x)])

nat_is_odd(x) == x # <<>> /\ x[1] % 2 = 1

\* [q, r] after one more quotient bit of the long division by d, from the
\* doubled quotient q2 and the doubled remainder r2
nat_div_bit(q2, r2, d) ==
    IF nat_cmp(r2, d) >= 0
    THEN [q |-> nat_add(q2, <<1>>), r |-> nat_sub(r2, d)]
    ELSE [q |-> q2, r |-> r2]

\* [q, r] after n more quotient bits of the long division by d
RECURSIVE nat_div_bits(_, _, _)
nat_div_bits(qr, d, n) ==
    IF n = 0 THEN qr
    ELSE IF Len(qr.q) + Len(qr.r) >= 0
    THEN nat_div_bits(nat_div_bit(nat_add(qr.q, qr.q), nat_add(qr.r, qr.r), d),
                      d, n - 1)
    ELSE qr

MantissaBits == 53

FloatZero == [s |-> 0, m |-> <<>>, e |-> 0]

\* sign * q1 * 2^e, where rounding up may have carried q1 to 2^53
float_round_carry(sign, q1, e) ==
    IF nat_bit_length(q1) > MantissaBits
    THEN [s |-> sign, m |-> nat_shr(q1, 1), e |-> e + 1]
    ELSE [s |-> sign, m |-> q1, e |-> e]

\* the 53 leading bits q of a longer number, rounded by the bits cut off:
\* half is -1, 0 or 1 as these are below, equal to or above half a unit of q
float_round_half(sign, q, e, sticky, half) ==
    float_round_carry(sign,
                      IF half > 0 \/ (half = 0 /\ (sticky \/ nat_is_odd(q)))
                      THEN nat_add(q, <<1>>) ELSE q,
                      e)

\* n cut to its leading bits q, the k low bits being cut off
float_round_cut(sign, n, e, sticky, k, q) ==
    float_round_half(sign, q, e + k, sticky,
                     nat_cmp(nat_sub(n, nat_shl(q, k)), nat_shl(<<1>>, k - 1)))

\* n # 0 has k bits more than a significand holds (fewer when k < 0)
float_round_to(sign, n, e, sticky, k) ==
    IF k <= 0
    THEN [s |-> sign, m |-> nat_shl(n, -k), e |-> e + k]
    ELSE float_round_cut(sign, n, e, sticky, k, nat_shr(n, k))

\* the float nearest to sign * (n + f) * 2^e, where 0 <= f < 1 and
\* sticky tells whether f > 0
float_round(sign, n, e, sticky) ==
    IF n = <<>> THEN FloatZero
    ELSE float_round_to(sign, n, e, sticky, nat_bit_length(n) - MantissaBits)

float_of_int(n) ==
    IF n = 0 THEN FloatZero
    ELSE float_round(IF n < 0 THEN -1 ELSE 1,
                     nat_of_int(IF n < 0 THEN -n ELSE n), 0, FALSE)

float_neg(a) == [a EXCEPT !.s = -a.s]

\* -1, 0 or 1 as |a| is below, equal to or above |b|, both non-zero
float_cmp_abs(a, b) ==
    IF a.e < b.e THEN -1
    ELSE IF a.e > b.e THEN 1
    ELSE nat_cmp(a.m, b.m)

float_cmp(a, b) ==
    IF a.s # b.s THEN (IF a.s < b.s THEN -1 ELSE 1)
    ELSE IF a.s = 0 THEN 0
    ELSE a.s * float_cmp_abs(a, b)

float_lt(a, b) == float_cmp(a, b) < 0

float_le(a, b) == float_cmp(a, b) <= 0

float_gt(a, b) == float_cmp(a, b) > 0

float_ge(a, b) == float_cmp(a, b) >= 0

float_min(a, b) == IF float_lt(b, a) THEN b ELSE a

float_max(a, b) == IF float_gt(b, a) THEN b ELSE a

\* the operand of smaller exponent is at most a quarter of the last place of
\* the other when the exponents are further apart than this
FarApart == MantissaBits + 3

\* the exact sum [s, n, e, sticky] of xs * x * 2^e and ys * y * 2^e for
\* opposite signs xs and ys; c compares x with y
float_add_opposite(xs, x, ys, y, e, c) ==
    [s |-> IF c > 0 THEN xs ELSE ys,
     n |-> IF c > 0 THEN nat_sub(x, y) ELSE nat_sub(y, x),
     e |-> e, sticky |-> FALSE]

\* the exact sum of xs * x * 2^e and ys * y * 2^e
float_add_aligned(xs, x, ys, y, e) ==
    IF xs = ys THEN [s |-> xs, n |-> nat_add(x, y), e |-> e, sticky |-> FALSE]
    ELSE float_add_opposite(xs, x, ys, y, e, nat_cmp(x, y))

\* big + small, both non-zero, big.e >= small.e: the exact sum, or a number
\* that rounds as the sum does when small is far below the last place of big
float_add_ordered(big, small) ==
    IF big.e - small.e > FarApart
    THEN [s |-> big.s,
          n |-> IF big.s = small.s THEN nat_shl(big.m, 2)
                ELSE nat_sub(nat_shl(big.m, 2), <<1>>),
          e |-> big.e - 2, sticky |-> TRUE]
    ELSE float_add_aligned(big.s, nat_shl(big.m, big.e - small.e),
                           small.s, small.m, small.e)

float_round_sum(sum) == float_round(sum.s, sum.n, sum.e, sum.sticky)

float_add(a, b) ==
    IF a.s = 0 THEN b
    ELSE IF b.s = 0 THEN a
    ELSE float_round_sum(float_add_ordered(IF a.e >= b.e THEN a ELSE b,
                                           IF a.e >= b.e THEN b ELSE a))

float_sub(a, b) == float_add(a, float_neg(b))

float_mul(a, b) ==
    IF a.s = 0 \/ b.s = 0 THEN FloatZero
    ELSE float_round(a.s * b.s, nat_mul(a.m, b.m), a.e + b.e, FALSE)

\* the quotient is developed in DivisionRounds rounds of RoundBits bits
DivisionRounds == 5

RoundBits == (MantissaBits + 2) \div DivisionRounds

RECURSIVE nat_div_rounds(_, _, _)
nat_div_rounds(qr, d, rounds) ==
    IF rounds = 0 THEN qr
    ELSE IF Len(qr.q) >= 0
    THEN nat_div_rounds(nat_div_bits(qr, d, RoundBits), d, rounds - 1)
    ELSE qr

\* [q, r] of the division of x by the single limb d > 0, from limb i down
RECURSIVE nat_div_limb_from(_, _, _, _)
nat_div_limb_from(x, d, i, rest) ==
    IF i = 0 THEN [q |-> <<>>, r |-> rest]
    ELSE LET t == rest * LimbBase + x[i]
             low == nat_div_limb_from(x, d, i - 1, t % d)
         IN  [q |-> Append(low.q, t \div d), r |-> low.r]

nat_div_limb(x, d) ==
    LET qr == nat_div_limb_from(x, d, Len(x), 0)
    IN  [q |-> nat_norm(qr.q), r |-> qr.r]

RECURSIVE int_odd_part(_)
int_odd_part(n) == IF n % 2 = 1 THEN n ELSE int_odd_part(n \div 2)

\* a / b for b # 0.  A divisor whose significand is a single limb times a
\* power of two (every small integer is one) is divided by in one pass over
\* the limbs, any other divisor bit by bit; both give the exact quotient to
\* more than 54 bits and whether a remainder is left, which float_round
\* rounds.
\* sign * (q + f) * 2^e rounded, for the quotient q and the remainder r of
\* qr, where f > 0 exactly when r is not zero
float_div_round(sign, qr, e, zero) == float_round(sign, qr.q, e, qr.r # zero)

\* a / b where b.m = d * 2^t for the odd single limb d of bit length bits
float_div_limb(a, b, d, t, bits) ==
    float_div_round(a.s * b.s, nat_div_limb(nat_shl(a.m, bits + 2), d),
                    a.e - b.e - t - bits - 2, 0)

\* a / b where b.m = top * 2^(LimbBits * (Len(b.m) - 1)), d the odd part of top
float_div_short(a, b, top, d) ==
    float_div_limb(a, b, d,
                   LimbBits * (Len(b.m) - 1) + int_bit_length(top) - int_bit_length(d),
                   int_bit_length(d))

\* the long division started with the quotient bit first
float_div_long(a, b, first) ==
    float_div_round(a.s * b.s,
                    nat_div_rounds([q |-> nat_of_int(first),
                                    r |-> IF first = 1 THEN nat_sub(a.m, b.m)
                                          ELSE a.m],
                                   b.m, DivisionRounds),
                    a.e - b.e - RoundBits * DivisionRounds, <<>>)

float_div(a, b) ==
    IF a.s = 0 THEN FloatZero
    ELSE IF \A i \in 1..(Len(b.m) - 1) : b.m[i] = 0
    THEN float_div_short(a, b, b.m[Len(b.m)], int_odd_part(b.m[Len(b.m)]))
    ELSE float_div_long(a, b, IF nat_cmp(a.m, b.m) >= 0 THEN 1 ELSE 0)

\* the float of the quotient of two integers, which is also the float a
\* decimal literal such as 0.7 = 7/10 denotes
float_ratio(a, b) == float_div(float_of_int(a), float_of_int(b))

\* int(a): truncation toward zero
float_int(a) ==
    IF a.s = 0 THEN 0
    ELSE IF a.e >= 0 THEN a.s * int_of_nat(nat_shl(a.m, a.e))
    ELSE a.s * int_of_nat(nat_shr(a.m, -a.e))

\* the float of a natural number
float_of_nat(n) == float_round(1, n, 0, FALSE)

\* the whole part of a >= 0, a natural number (the intpart of C's modf)
float_intpart(a) ==
    IF a.s = 0 THEN <<>>
    ELSE IF a.e >= 0 THEN nat_shl(a.m, a.e)
    ELSE nat_shr(a.m, -a.e)

-----------------------------------------------------------------------------
(* datetime and timedelta                                                  *)
(*                                                                         *)
(* A timedelta is a whole number of microseconds, and so is the distance   *)
(* of a datetime from another.  Both are modelled as that number, a        *)
(* natural number in the limb notation; a datetime counts from            *)
(* 1970-01-01 00:00:00 of its own (naive) calendar.                        *)

\* 3 600 000 000 microseconds
MicrosecondsPerHour == nat_mul(nat_of_int(3600), nat_of_int(1000000))

\* timedelta(hours=hours) for a float hours >= 0: the whole hours are
\* converted exactly; the fractional part times 3600000000 is a float
\* product, whose whole part is added and whose fraction is rounded to the
\* nearest microsecond, a half to the even total
timedelta_round(x, half) ==
    IF half > 0 \/ (half = 0 /\ nat_is_odd(x)) THEN nat_add(x, <<1>>) ELSE x

timedelta_fraction(whole, dnum, dint) ==
    timedelta_round(nat_add(whole, dint),
                    float_cmp(float_sub(dnum, float_of_nat(dint)), float_ratio(1, 2)))

timedelta_parts(whole, fracpart, dnum) ==
    IF fracpart = FloatZero THEN whole
    ELSE timedelta_fraction(whole, dnum, float_intpart(dnum))

timedelta_split(hours, intpart, fracpart) ==
    timedelta_parts(nat_mul(intpart, MicrosecondsPerHour), fracpart,
                    float_mul(float_of_nat(MicrosecondsPerHour), fracpart))

timedelta_whole(hours, intpart) ==
    timedelta_split(hours, intpart, float_sub(hours, float_of_nat(intpart)))

timedelta_hours(hours) == timedelta_whole(hours, float_intpart(hours))

\* datetime + timedelta
datetime_add(t, delta) == nat_add(t, delta)

\* timedelta(days=days)
timedelta_days(days) == nat_mul(nat_of_int(24 * days), MicrosecondsPerHour)

\* datetime <= datetime, datetime < datetime
datetime_le(a, b) == nat_cmp(a, b) <= 0

datetime_lt(a, b) == nat_cmp(a, b) < 0

\* hour h of the day that is day_offset days after 1970-01-01
at_hour(day_offset, h) ==
    nat_mul(nat_of_int(24 * day_offset + h), MicrosecondsPerHour)

\* the date and time of t, day and second in 24 * 3600 = 100 * 864 seconds,
\* from its microseconds (ms: [q, r] of t by 1000, and so on)
datetime_fields(ms, s, c, d) ==
    [day |-> int_of_nat(d.q), sec |-> c.r + 100 * d.r,
     microsecond |-> ms.r + 1000 * s.r]

datetime_days(ms, s, c) == datetime_fields(ms, s, c, nat_div_limb(c.q, 864))

datetime_seconds(ms, s) == datetime_days(ms, s, nat_div_limb(s.q, 100))

datetime_millis(ms) == datetime_seconds(ms, nat_div_limb(ms.q, 1000))

datetime_parts(t) == datetime_millis(nat_div_limb(t, 1000))

\* datetime.date(): the day of t, counted from 1970-01-01
datetime_date(t) == datetime_parts(t).day

\* The readings of a clock that shows start at the first datetime.now() and
\* has advanced by step microseconds at each later one.
ticking_clock(start, step, reads) ==
    [k \in 1..reads |-> datetime_add(start, nat_of_int((k - 1) * step))]

\* the microseconds by which the clocks drawn advance from read to read: a
\* clock that stands still, and two that run
ClockSteps == {0, 1, 7}

-----------------------------------------------------------------------------
(* datetime.timestamp()                                                    *)
(*                                                                         *)
(* The deadlines of the engine are naive datetimes, and timestamp() of a   *)
(* naive datetime is float(s) + microsecond / 1e6, where s is the POSIX    *)
(* time at which the local clock shows the datetime (CPython's             *)
(* local_to_seconds, with fold = 0).  A count of seconds is the record     *)
(* [day, sec] of value day * 86400 + sec with 0 <= sec < 86400, which      *)
(* may be negative.  A time zone is the sequence of its periods            *)
(* [from, utcoff], in order: utcoff is the offset of local time from UTC   *)
(* in seconds from the POSIX time from on; the first period has no         *)
(* beginning.                                                              *)

SecondsPerDay == 24 * 3600

seconds_of(day, sec) ==
    [day |-> day + sec \div SecondsPerDay, sec |-> sec % SecondsPerDay]

seconds_add(u, k) == seconds_of(u.day, u.sec + k)

seconds_diff(x, y) == (x.day - y.day) * SecondsPerDay + (x.sec - y.sec)

seconds_cmp(x, y) ==
    IF x.day # y.day THEN (IF x.day < y.day THEN -1 ELSE 1)
    ELSE IF x.sec < y.sec THEN -1
    ELSE IF x.sec > y.sec THEN 1
    ELSE 0

\* the offset from UTC in force at the POSIX time u
utcoffset_in(zone, periods) ==
    zone[CHOOSE i \in periods : \A j \in periods : j <= i].utcoff

utcoffset(zone, u) ==
    utcoffset_in(zone, {i \in DOMAIN zone :
                           i = 1 \/ seconds_cmp(zone[i].from, u) <= 0})

\* what the local clock shows at the POSIX time u (time.localtime)
local(zone, u) == seconds_add(u, utcoffset(zone, u))

\* u with local(u) = t, for the seconds t of a naive datetime: the offset a
\* in force at t read as UTC gives the candidate u1 = t - a; the offset b in
\* force a day before u1 (when u1 is a solution) or at u1 (when it is none)
\* gives u2 = t - b; the earlier solution is returned, and the later
\* candidate when t is in a gap of the local clock
max_fold_seconds == 24 * 3600

local_to_seconds_second(zone, t, u1, t1, u2) ==
    IF local(zone, u2) = t THEN u2
    ELSE IF t1 = t THEN u1
    ELSE IF seconds_cmp(u1, u2) >= 0 THEN u1 ELSE u2

local_to_seconds_found(zone, t, a, u1, t1, b) ==
    IF t1 = t /\ a = b THEN u1
    ELSE local_to_seconds_second(zone, t, u1, t1, seconds_add(t, -b))

local_to_seconds_day_before(zone, t, a, u1, t1, u2) ==
    local_to_seconds_found(zone, t, a, u1, t1, seconds_diff(local(zone, u2), u2))

local_to_seconds_first(zone, t, a, u1, t1) ==
    IF t1 = t
    THEN local_to_seconds_day_before(zone, t, a, u1, t1,
                                     seconds_add(u1, -max_fold_seconds))
    ELSE local_to_seconds_found(zone, t, a, u1, t1, seconds_diff(t1, u1))

local_to_seconds_candidate(zone, t, a, u1) ==
    local_to_seconds_first(zone, t, a, u1, local(zone, u1))

local_to_seconds_offset(zone, t, a) ==
    local_to_seconds_candidate(zone, t, a, seconds_add(t, -a))

local_to_seconds(zone, t) ==
    local_to_seconds_offset(zone, t, seconds_diff(local(zone, t), t))

\* float(u) of a count of seconds
seconds_magnitude(day, sec) ==
    IF sec >= 0
    THEN nat_add(nat_scale(nat_scale(nat_of_int(day), 864), 100), nat_of_int(sec))
    ELSE nat_sub(nat_scale(nat_scale(nat_of_int(day), 864), 100), nat_of_int(-sec))

float_of_seconds(u) ==
    IF u.day >= 0 THEN float_of_nat(seconds_magnitude(u.day, u.sec))
    ELSE float_neg(float_of_nat(seconds_magnitude(-u.day, -u.sec)))

\* datetime.timestamp() of the naive datetime with the fields parts
timestamp_of(zone, parts) ==
    float_add(float_of_seconds(
                  local_to_seconds(zone, seconds_of(parts.day, parts.sec))),
              float_ratio(parts.microsecond, 1000000))

datetime_timestamp(zone, t) == timestamp_of(zone, datetime_parts(t))

\* the days from 1970-01-01 to 2024-03-10 and to 2300-01-01 (54 and 330
\* years with 13 and 80 leap days)
Day20240310 == 54 * 365 + 13 + 31 + 29 + 9
Day23000101 == 330 * 365 + 80

\* UTC, and America/New_York with the two changes of its clock in 2024: on
\* 2024-03-10 the local clock jumps from 02:00 to 03:00 (07:00 UTC), on
\* 2024-11-03 it falls back from 02:00 to 01:00 (06:00 UTC).  In January
\* 1970 and in January 2300 it shows UTC-5 as well.
UTC == << [from |-> seconds_of(0, 0), utcoff |-> 0] >>

NewYork ==
    << [from |-> seconds_of(0, 0), utcoff |-> -5 * 3600],
       [from |-> seconds_of(Day20240310, 7 * 3600), utcoff |-> -4 * 3600],
       [from |-> seconds_of(Day20240310 + 238, 6 * 3600), utcoff |-> -5 * 3600] >>

TimeZones == {UTC, NewYork}

-----------------------------------------------------------------------------
(* SmartScheduler: the pairing functions                                   *)

\* _find_best_slot returns None: no slot object has id 0
NoSlot == 0

\* the acceptance bar of _find_best_slot (energy_match >= 0.6)
EnergyBar == float_ratio(6, 10)
\* variant: the underqualified penalty is 0.5 a level instead of 0.3
energy_match_steep(required, available) ==
    IF available >= required
    THEN float_sub(float_of_int(1),
                   float_mul(float_ratio(2, 10), float_of_int(available - required)))
    ELSE float_sub(float_ratio(6, 10),
                   float_mul(float_ratio(5, 10), float_of_int(required - available)))

\* variant: the overqualified penalty is 0.3 a level instead of 0.2
energy_match_overqualified(required, available) ==
    IF available >= required
    THEN float_sub(float_of_int(1),
                   float_mul(float_ratio(3, 10), float_of_int(available - required)))
    ELSE float_sub(float_ratio(6, 10),
                   float_mul(float_ratio(3, 10), float_of_int(required - available)))

\* _calculate_energy_match(required, available):
\* 1.0 - (0.2 * (available - required)) or 0.6 - (0.3 * (required - available))
calculate_energy_match(required, available) ==
    IF available >= required
    THEN float_sub(float_of_int(1),
                   float_mul(float_ratio(2, 10), float_of_int(available - required)))
    ELSE float_sub(float_ratio(6, 10),
                   float_mul(float_ratio(3, 10), float_of_int(required - available)))

\* variant: the row of health also lists work
compatible_contexts_health_at_work(task_context) ==
    CASE task_context = "work"     -> {"work", "mixed"}
      [] task_context = "personal" -> {"personal", "mixed"}
      [] task_context = "health"   -> {"personal", "work", "health", "mixed"}
      [] task_context = "admin"    -> {"personal", "work", "mixed"}
      [] OTHER                     -> {task_context}
\* the compatible_contexts table of _check_context_compatibility
compatible_contexts(task_context) ==
    CASE task_context = "work"     -> {"work", "mixed"}
      [] task_context = "personal" -> {"personal", "mixed"}
      [] task_context = "health"   -> {"personal", "health", "mixed"}
      [] task_context = "admin"    -> {"personal", "work", "mixed"}
      [] OTHER                     -> {task_context}

\* _check_context_compatibility(task_context, slot_context)
check_context_compatibility(task_context, slot_context) ==
    slot_context \in compatible_contexts(task_context)

\* _calculate_efficiency_score(task, slot):
\* energy_match * 0.4 + min(1.0, slot.duration_hours / estimated_duration) * 0.3
\* + quality_score * 0.3, added from left to right (estimated_duration # 0)
calculate_efficiency_score(task, slot) ==
    LET energy_match == calculate_energy_match(task.required_energy,
                                               slot.available_energy)
        time_efficiency ==
            float_min(float_of_int(1),
                      float_div(slot.duration_hours, task.estimated_duration))
        quality_score == slot.quality_score
    IN  float_add(float_add(float_mul(energy_match, float_ratio(4, 10)),
                            float_mul(time_efficiency, float_ratio(3, 10))),
                  float_mul(quality_score, float_ratio(3, 10)))
\* variant: the deadline is compared with the start of the slot, not with the
\* end of the task
deadline_ok_start_only(task, slot) ==
    IF task.deadline # NoDeadline
    THEN datetime_le(slot.start_time, task.deadline)
    ELSE TRUE

\* the deadline test of _find_best_slot (deadline_ok):
\* slot.start_time + timedelta(hours=task.estimated_duration) <= task.deadline
deadline_ok(task, slot) ==
    IF task.deadline # NoDeadline
    THEN datetime_le(datetime_add(slot.start_time,
                                  timedelta_hours(task.estimated_duration)),
                     task.deadline)
    ELSE TRUE

\* variant: the loop body without the energy test
slot_accepts_any_energy(task, slot) ==
    /\ float_ge(slot.duration_hours, task.estimated_duration)
    /\ check_context_compatibility(task.context, slot.context_type)
    /\ deadline_ok(task, slot)
\* the body of the loop of _find_best_slot: does this slot take the task?
slot_accepts(task, slot) ==
    /\ float_ge(slot.duration_hours, task.estimated_duration)
    /\ float_ge(calculate_energy_match(task.required_energy,
                                       slot.available_energy), EnergyBar)
    /\ check_context_compatibility(task.context, slot.context_type)
    /\ deadline_ok(task, slot)

\* variant: the last slot of the pool that takes the task
find_best_slot_last(task, pool, objs) ==
    LET ok == {j \in DOMAIN pool : slot_accepts(task, objs[pool[j]])}
    IN  IF ok = {} THEN NoSlot
        ELSE pool[CHOOSE j \in ok : \A k \in ok : j >= k]
\* the slot at the first of the positions ok of the pool; NoSlot when ok is
\* empty
first_slot(pool, ok) ==
    IF ok = {} THEN NoSlot
    ELSE pool[CHOOSE j \in ok : \A k \in ok : j <= k]

\* _find_best_slot(task, available_slots): the first slot of the pool, in pool
\* order, that takes the task; NoSlot when none does
find_best_slot(task, pool, objs) ==
    first_slot(pool, {j \in DOMAIN pool : slot_accepts(task, objs[pool[j]])})

\* list.remove(x): drops the first element that compares equal to x; TimeSlot is
\* a dataclass, so two slot objects are equal when all their fields are
list_remove(pool, slot, objs) ==
    LET first == CHOOSE j \in DOMAIN pool :
                    /\ objs[pool[j]] = objs[slot]
                    /\ \A k \in 1..(j - 1) : objs[pool[k]] # objs[slot]
    IN  [k \in 1..(Len(pool) - 1) |-> IF k < first THEN pool[k] ELSE pool[k + 1]]
\* variant: a slot is removed only when it is shorter than the hours used
update_slot_availability_strict(slot, used_hours, all_slots, objs) ==
    IF float_lt(objs[slot].duration_hours, used_hours)
    THEN [all_slots |-> list_remove(all_slots, slot, objs), slot_obj |-> objs]
    ELSE [all_slots |-> all_slots,
          slot_obj  |-> [objs EXCEPT
                           ![slot].start_time =
                               datetime_add(@, timedelta_hours(used_hours)),
                           ![slot].duration_hours = float_sub(@, used_hours)]]

\* variant: a slot that is used up is also advanced and emptied
update_slot_availability_drains(slot, used_hours, all_slots, objs) ==
    IF float_le(objs[slot].duration_hours, used_hours)
    THEN [all_slots |-> IF \E j \in DOMAIN all_slots : objs[all_slots[j]] = objs[slot]
                        THEN list_remove(all_slots, slot, objs)
                        ELSE all_slots,
          slot_obj |-> [objs EXCEPT
              ![slot].start_time = datetime_add(@, timedelta_hours(used_hours)),
              ![slot].duration_hours = FloatZero]]
    ELSE [all_slots |-> all_slots,
          slot_obj |-> [objs EXCEPT
              ![slot].start_time = datetime_add(@, timedelta_hours(used_hours)),
              ![slot].duration_hours = float_sub(@, used_hours)]]
\* _update_slot_availability(slot, used_hours, all_slots): the pool and the slot
\* objects afterwards
update_slot_availability(slot, used_hours, all_slots, objs) ==
    IF float_le(objs[slot].duration_hours, used_hours)
    THEN [all_slots |-> IF \E j \in DOMAIN all_slots : objs[all_slots[j]] = objs[slot]
                        THEN list_remove(all_slots, slot, objs)
                        ELSE all_slots,
          slot_obj  |-> objs]
    ELSE [all_slots |-> all_slots,
          slot_obj  |-> [objs EXCEPT
                           ![slot].start_time =
                               datetime_add(@, timedelta_hours(used_hours)),
                           ![slot].duration_hours = float_sub(@, used_hours)]]

\* The key sorted(tasks, key=...) computes for a task, once for each task:
\* (deadline.timestamp() or float('inf'), -priority, -required_energy).  The
\* timestamp is a float; the key keeps the priority and the energy, which
\* task_key_less compares the other way round.  float('inf') is written as
\* the record below, which is no float of the model.
Infinity == [s |-> 1, m |-> <<>>, e |-> 0]

task_key(t) ==
    [deadline |-> IF t.deadline = NoDeadline THEN Infinity
                  ELSE datetime_timestamp(local_zone, t.deadline),
     priority |-> t.priority,
     required_energy |-> t.required_energy]

RECURSIVE task_keys(_)
task_keys(ts) ==
    IF ts = <<>> THEN <<>> ELSE <<task_key(Head(ts))>> \o task_keys(Tail(ts))

\* The first components of two keys compared: float('inf') is above every
\* timestamp.  -1, 0 or 1 as the component of a is below, equal to or above
\* that of b.
task_deadline_cmp(a, b) ==
    IF a.deadline = Infinity
    THEN (IF b.deadline = Infinity THEN 0 ELSE 1)
    ELSE IF b.deadline = Infinity THEN -1
    ELSE float_cmp(a.deadline, b.deadline)

\* key a < key b, as Python compares the tuples
task_key_less(a, b) ==
    \/ task_deadline_cmp(a, b) < 0
    \/ /\ task_deadline_cmp(a, b) = 0
       /\ \/ a.priority > b.priority
          \/ (a.priority = b.priority /\ a.required_energy > b.required_energy)

\* sorted(tasks, key=...), given the keys of the tasks
sorted_by_keys(ts, keys) ==
    SortedBy(ts, {p \in (DOMAIN ts) \X (DOMAIN ts) :
                     task_key_less(keys[p[1]], keys[p[2]])})

sort_tasks(ts) == sorted_by_keys(ts, task_keys(ts))

\* the key of sorted(available_slots, ...):
\* (-quality_score, -available_energy, duration_hours)
slot_key_less(a, b) ==
    \/ float_gt(a.quality_score, b.quality_score)
    \/ /\ a.quality_score = b.quality_score
       /\ \/ a.available_energy > b.available_energy
          \/ /\ a.available_energy = b.available_energy
             /\ float_lt(a.duration_hours, b.duration_hours)

RECURSIVE SumOver(_, _)
SumOver(S, f) ==
    IF S = {} THEN 0
    ELSE LET x == CHOOSE y \in S : TRUE IN f[x] + SumOver(S \ {x}, f)

\* sum(xs) of a list of floats: the elements are added one by one, from the
\* first to the last, to the running total that starts at 0
RECURSIVE float_sum_from(_, _, _)
float_sum_from(xs, i, total) ==
    IF i > Len(xs) THEN total
    ELSE float_sum_from(xs, i + 1, float_add(total, xs[i]))

float_sum(xs) == float_sum_from(xs, 1, FloatZero)

\* sum(task.estimated_duration for task in tasks if task.id in schedule)
total_scheduled_hours(ts, sched) ==
    LET in_schedule(t) == t.id \in DOMAIN sched
        scheduled == SelectSeq(ts, in_schedule)
    IN  float_sum([i \in DOMAIN scheduled |-> scheduled[i].estimated_duration])

\* dict.values(): a dict keeps its keys in the order of their first
\* insertion, which every value of the model carries as its field inserted
dict_values(d) ==
    [i \in 1..Cardinality(DOMAIN d) |-> d[CHOOSE k \in DOMAIN d : d[k].inserted = i]]

\* variant: an empty schedule counts as fully efficient
calculate_overall_efficiency_unguarded(sched) ==
    IF DOMAIN sched = {} THEN float_of_int(1)
    ELSE LET items == dict_values(sched)
         IN  float_div(float_sum([i \in DOMAIN items |-> items[i].efficiency_score]),
                       float_of_int(Len(items)))

\* _calculate_overall_efficiency(schedule): 0.0 for the empty schedule, else
\* sum(efficiency_scores) / len(efficiency_scores)
calculate_overall_efficiency(sched) ==
    IF DOMAIN sched = {} THEN FloatZero
    ELSE LET items == dict_values(sched)
         IN  float_div(float_sum([i \in DOMAIN items |-> items[i].efficiency_score]),
                       float_of_int(Len(items)))

\* _generate_scheduling_recommendations: which of its four lines are emitted
generate_scheduling_recommendations(sched, unsched) ==
    (IF \E i \in DOMAIN unsched : unsched[i].priority = URGENT
     THEN {"urgent_unscheduled"} ELSE {})
    \cup (IF unsched # <<>> THEN {"need_rescheduling"} ELSE {})
    \cup (IF DOMAIN sched # {}
             /\ float_lt(calculate_overall_efficiency(sched), float_ratio(7, 10))
          THEN {"low_efficiency"} ELSE {})
    \cup (IF \E k \in DOMAIN sched : float_lt(sched[k].energy_match, float_ratio(7, 10))
          THEN {"energy_mismatch"} ELSE {})

-----------------------------------------------------------------------------
(* SmartScheduler.generate_optimal_schedule: inputs                        *)

\* the longest task list and slot list drawn from the catalogs
MaxTasks == 2
MaxSlots == 2

Task(id, dur, prio, energy, deadline, ctx) ==
    [id |-> id, estimated_duration |-> dur, priority |-> prio,
     required_energy |-> energy, deadline |-> deadline, context |-> ctx]

Slot(start, end, energy, ctx, dur, quality) ==
    [start_time |-> start, end_time |-> end, available_energy |-> energy,
     context_type |-> ctx, duration_hours |-> dur, quality_score |-> quality]

\* a task of dur whole hours, due at hour deadline of 1970-01-01
HourTask(id, dur, prio, energy, deadline, ctx) ==
    Task(id, float_of_int(dur), prio, energy, at_hour(0, deadline), ctx)

\* a task of dur whole hours without deadline
OpenTask(id, dur, prio, energy, ctx) ==
    Task(id, float_of_int(dur), prio, energy, NoDeadline, ctx)

\* a slot from hour start to hour end of 1970-01-01, with
\* duration_hours = end - start and the quality_score quality / 10
HourSlot(start, end, energy, ctx, quality) ==
    Slot(at_hour(0, start), at_hour(0, end), energy, ctx,
         float_of_int(end - start), float_ratio(quality, 10))

\* The tasks a caller's list is drawn from.  Two of them carry the same id,
\* and two last a number of hours (0.7 and 0.3) that is no binary fraction.
\* Every estimated_duration is positive: with estimated_duration = 0
\* _calculate_efficiency_score divides by zero.
TaskCatalog ==
    { HourTask("t1", 2, URGENT, HIGH,   1, "work"),
      HourTask("t2", 3, HIGH,   HIGH,   6, "work"),
      HourTask("t3", 1, HIGH,   LOW,    6, "work"),
      OpenTask("t4", 2, MEDIUM, MEDIUM,    "health"),
      OpenTask("t5", 1, LOW,    PEAK,      "personal"),
      HourTask("t1", 1, URGENT, MEDIUM, 6, "admin"),
      OpenTask("t7", 1, MEDIUM, LOW,       "errand"),
      Task("t8", float_ratio(7, 10), MEDIUM, MEDIUM, NoDeadline, "work"),
      Task("t9", float_ratio(3, 10), LOW,    MEDIUM, NoDeadline, "work") }

\* A list of four tasks of 2/7, 2/7, 3/7 and 1 hour of work: the first three
\* last one hour together, and none of them a whole number of microseconds.
SeventhsTasks ==
    << Task("s1", float_ratio(2, 7), HIGH, MEDIUM, NoDeadline, "work"),
       Task("s2", float_ratio(2, 7), HIGH, MEDIUM, NoDeadline, "work"),
       Task("s3", float_ratio(3, 7), HIGH, MEDIUM, NoDeadline, "work"),
       OpenTask("s4", 1, HIGH, MEDIUM, "work") >>

\* datetime(1970, 1, 1 + day, h, mi, 0, us)
datetime_at(day, h, mi, us) ==
    datetime_add(at_hour(day, h),
                 nat_add(nat_mul(nat_of_int(60 * mi), nat_of_int(1000000)),
                         nat_of_int(us)))

\* Two tasks due on 2024-03-10 at 02:30 and at 03:00: in New York the local
\* clock never shows 02:30 on that day.
DstGapTasks ==
    << Task("g1", float_of_int(1), MEDIUM, MEDIUM,
            datetime_at(Day20240310, 2, 30, 0), "work"),
       Task("g2", float_of_int(1), MEDIUM, MEDIUM,
            datetime_at(Day20240310, 3, 0, 0), "work") >>

\* Two tasks due on 2300-01-01, one and two microseconds after midnight, the
\* later one of the higher priority: floats near 10^10 are 2^-19 seconds
\* (1.9 microseconds) apart.
FarFutureTasks ==
    << Task("f1", float_of_int(1), LOW, MEDIUM,
            datetime_at(Day23000101, 0, 0, 1), "work"),
       Task("f2", float_of_int(1), URGENT, MEDIUM,
            datetime_at(Day23000101, 0, 0, 2), "work") >>

\* The slots a caller's list is drawn from.
SlotCatalog ==
    { HourSlot(0, 4, HIGH,   "work",     9),
      HourSlot(5, 7, HIGH,   "work",     9),
      HourSlot(0, 2, PEAK,   "mixed",    8),
      HourSlot(6, 8, LOW,    "personal", 6),
      HourSlot(2, 3, MEDIUM, "health",   6),
      HourSlot(8, 9, LOW,    "errand",   5),
      HourSlot(9, 10, MEDIUM, "work",    7) }

\* Two adjacent work slots of one hour, the first of the better quality.
AdjacentHours ==
    << HourSlot(0, 1, MEDIUM, "work", 9), HourSlot(1, 2, MEDIUM, "work", 8) >>

SeqsUpTo(S, n) == UNION {[1..k -> S] : k \in 0..n}

\* task lists: sequences of distinct catalog tasks, and the three lists above
TaskLists == {ts \in SeqsUpTo(TaskCatalog, MaxTasks) :
                 \A i, j \in DOMAIN ts : i # j => ts[i] # ts[j]}
             \cup {SeventhsTasks, DstGapTasks, FarFutureTasks}

\* slot lists: sequences of slot objects; two objects may have equal fields
SlotLists == SeqsUpTo(SlotCatalog, MaxSlots) \cup {AdjacentHours}

EmptyDict == [k \in {} |-> 0]
NoResult == [k \in {} |-> 0]

SchedIdle ==
    /\ tasks = <<>> /\ available_slots = <<>> /\ slot_obj = <<>>
    /\ given_slots = <<>>
    /\ sorted_tasks = <<>> /\ sorted_slots = <<>>
    /\ schedule = EmptyDict /\ unscheduled_tasks = <<>> /\ history = <<>>
    /\ idx = 0 /\ pc = "idle" /\ result = NoResult

MatchIdle == m_task = <<>> /\ m_slot = <<>> /\ m_out = <<>>

DebtIdle ==
    /\ activity_data = <<>> /\ period_days = 0 /\ weekly_target = 0
    /\ debt = <<>> /\ projections = <<>> /\ dpc = "idle"

EnergyIdle ==
    /\ energy_data = <<>> /\ hourly_performance = <<>> /\ daily_patterns = <<>>
    /\ e_idx = 0 /\ epc = "idle" /\ profile = NoResult
    /\ prev_profile = NoResult /\ data_debt = <<>>

MakeupIdle ==
    /\ makeup_debt = <<>> /\ preference = "" /\ makeup_schedule = <<>>
    /\ mpc = "idle" /\ user_preferences = EmptyDict /\ debt_tasks = <<>>
    /\ makeup_clock = <<>>

RunsIdle == runs = <<>>

EngineIdle == engine = [pc |-> "idle"]

\* the specifications that call no timestamp() run in UTC
ZoneIdle == local_zone = UTC

\* generate_optimal_schedule is entered with a task list and a slot list
InitSched ==
    /\ tasks \in TaskLists
    /\ \E sl \in SlotLists :
          /\ available_slots = [i \in 1..Len(sl) |-> i]
          /\ slot_obj = sl
          /\ given_slots = sl
    /\ sorted_tasks = <<>> /\ sorted_slots = <<>>
    /\ schedule = EmptyDict /\ unscheduled_tasks = <<>> /\ history = <<>>
    /\ idx = 0 /\ pc = "start" /\ result = NoResult

-----------------------------------------------------------------------------
(* SmartScheduler.generate_optimal_schedule: steps                         *)

\* lines 347-362: the two sorted() calls and the empty schedule
SortInputs ==
    /\ pc = "start"
    /\ sorted_tasks' = sort_tasks(tasks)
    /\ sorted_slots' = SortedBy(available_slots,
          {p \in (DOMAIN available_slots) \X (DOMAIN available_slots) :
              slot_key_less(slot_obj[available_slots[p[1]]],
                            slot_obj[available_slots[p[2]]])})
    /\ schedule' = EmptyDict
    /\ unscheduled_tasks' = <<>>
    /\ idx' = 1
    /\ pc' = "loop"
    /\ UNCHANGED <<tasks, available_slots, slot_obj, given_slots, history, result>>

\* variant: the efficiency score is computed after the slot was shortened
schedule_entry_after_use(task, slot, objs) ==
    [task |-> task,
     slot |-> slot,
     start_time |-> objs[slot].start_time,
     end_time |-> datetime_add(objs[slot].start_time,
                               timedelta_hours(task.estimated_duration)),
     energy_match |-> calculate_energy_match(task.required_energy,
                                             objs[slot].available_energy),
     efficiency_score |->
         calculate_efficiency_score(task,
             [objs[slot] EXCEPT
                 !.duration_hours = float_sub(@, task.estimated_duration)]),
     inserted |-> 0]
\* the schedule entry of lines 368-375
schedule_entry(task, slot, objs) ==
    [task |-> task,
     slot |-> slot,
     start_time |-> objs[slot].start_time,
     end_time |-> datetime_add(objs[slot].start_time,
                               timedelta_hours(task.estimated_duration)),
     energy_match |-> calculate_energy_match(task.required_energy,
                                             objs[slot].available_energy),
     efficiency_score |-> calculate_efficiency_score(task, objs[slot]),
     inserted |-> 0]
\* variant: the assignment replaces the dict instead of adding a key
dict_set_replaces(d, k, v) == [x \in {k} |-> [v EXCEPT !.inserted = 1]]

\* d[k] = v: a new key is inserted after the keys of d, a key of d keeps its
\* place
dict_set(d, k, v) ==
    LET place == IF k \in DOMAIN d THEN d[k].inserted
                 ELSE Cardinality(DOMAIN d) + 1
    IN  [x \in DOMAIN d \cup {k} |->
            IF x = k THEN [v EXCEPT !.inserted = place] ELSE d[x]]

\* lines 364-378: one iteration of the task loop that finds a slot
PlaceTask ==
    /\ pc = "loop" /\ idx <= Len(sorted_tasks)
    /\ \E task \in {sorted_tasks[idx]} :
       \E best_slot \in {find_best_slot(task, sorted_slots, slot_obj)} :
          /\ best_slot # NoSlot
          /\ schedule' = dict_set(schedule, task.id,
                                  schedule_entry(task, best_slot, slot_obj))
          /\ \E upd \in {update_slot_availability(best_slot, task.estimated_duration,
                                                  sorted_slots, slot_obj)} :
                /\ sorted_slots' = upd.all_slots
                /\ slot_obj' = upd.slot_obj
          /\ history' = Append(history, task)
          /\ UNCHANGED unscheduled_tasks
    /\ idx' = idx + 1
    /\ UNCHANGED <<tasks, available_slots, given_slots, sorted_tasks, pc, result>>

\* lines 364-366, 379-380: one iteration of the task loop that finds none
LeaveUnscheduled ==
    /\ pc = "loop" /\ idx <= Len(sorted_tasks)
    /\ LET task == sorted_tasks[idx]
       IN  /\ find_best_slot(task, sorted_slots, slot_obj) = NoSlot
           /\ unscheduled_tasks' = Append(unscheduled_tasks, task)
           /\ history' = Append(history, task)
    /\ idx' = idx + 1
    /\ UNCHANGED <<tasks, available_slots, slot_obj, given_slots, sorted_tasks, sorted_slots,
                   schedule, pc, result>>

\* lines 382-388: the returned dict
Return ==
    /\ pc = "loop" /\ idx > Len(sorted_tasks)
    /\ result' = [scheduled_tasks |-> schedule,
                  unscheduled_tasks |-> unscheduled_tasks,
                  total_scheduled_hours |-> total_scheduled_hours(tasks, schedule),
                  schedule_efficiency |-> calculate_overall_efficiency(schedule),
                  recommendations |->
                      generate_scheduling_recommendations(schedule, unscheduled_tasks)]
    /\ pc' = "done"
    /\ UNCHANGED <<tasks, available_slots, slot_obj, given_slots, sorted_tasks, sorted_slots,
                   schedule, unscheduled_tasks, history, idx>>

Init ==
    /\ InitSched /\ MatchIdle /\ DebtIdle /\ EnergyIdle /\ MakeupIdle /\ RunsIdle
    /\ EngineIdle
    /\ local_zone \in TimeZones

Next ==
    \/ SortInputs /\ UNCHANGED <<matchVars, debtVars, energyVars, makeupVars, runs, engine, local_zone>>
    \/ PlaceTask /\ UNCHANGED <<matchVars, debtVars, energyVars, makeupVars, runs, engine, local_zone>>
    \/ LeaveUnscheduled /\ UNCHANGED <<matchVars, debtVars, energyVars, makeupVars, runs, engine, local_zone>>
    \/ Return /\ UNCHANGED <<matchVars, debtVars, energyVars, makeupVars, runs, engine, local_zone>>

Spec == Init /\ [][Next]_vars

-----------------------------------------------------------------------------
(* The pairing functions applied to one task and one slot (SpecMatch)      *)

TaskContexts == {"work", "personal", "health", "admin", "errand"}
SlotContexts == {"work", "personal", "health", "mixed", "errand"}

MatchTasks ==
    {Task("t", float_of_int(dur), MEDIUM, energy, deadline, ctx) :
        dur \in {1, 2}, energy \in EnergyLevel,
        deadline \in {NoDeadline, at_hour(0, 2)}, ctx \in TaskContexts}

MatchSlots ==
    {HourSlot(start, start + dur, energy, ctx, quality) :
        start \in {0, 1}, dur \in {1, 2}, energy \in EnergyLevel,
        ctx \in SlotContexts, quality \in {6, 9}}

InitMatch ==
    /\ m_task \in MatchTasks
    /\ m_slot \in MatchSlots
    /\ m_out = <<>>

\* a call of _calculate_energy_match(task.required_energy, slot.available_energy)
EnergyMatch ==
    /\ m_out = <<>>
    /\ m_out' = [op |-> "energy_match",
                 energy_match |-> calculate_energy_match(m_task.required_energy,
                                                         m_slot.available_energy)]
    /\ UNCHANGED <<m_task, m_slot>>

\* a call of _check_context_compatibility(task.context, slot.context_type)
ContextCompatibility ==
    /\ m_out = <<>>
    /\ m_out' = [op |-> "context",
                 context_match |-> check_context_compatibility(m_task.context,
                                                               m_slot.context_type)]
    /\ UNCHANGED <<m_task, m_slot>>

\* a call of _find_best_slot(task, [slot])
FindBestSlot ==
    /\ m_out = <<>>
    /\ m_out' = [op |-> "find_best_slot",
                 best_slot |-> find_best_slot(m_task, <<1>>, <<m_slot>>)]
    /\ UNCHANGED <<m_task, m_slot>>

\* a call of _calculate_efficiency_score(task, slot)
EfficiencyScore ==
    /\ m_out = <<>>
    /\ m_out' = [op |-> "efficiency",
                 efficiency_score |-> calculate_efficiency_score(m_task, m_slot)]
    /\ UNCHANGED <<m_task, m_slot>>

NextMatch ==
    \/ EnergyMatch /\ UNCHANGED <<schedVars, debtVars, energyVars, makeupVars, runs, engine, local_zone>>
    \/ ContextCompatibility /\ UNCHANGED <<schedVars, debtVars, energyVars, makeupVars, runs, engine, local_zone>>
    \/ FindBestSlot /\ UNCHANGED <<schedVars, debtVars, energyVars, makeupVars, runs, engine, local_zone>>
    \/ EfficiencyScore /\ UNCHANGED <<schedVars, debtVars, energyVars, makeupVars, runs, engine, local_zone>>

InitMatchSpec ==
    /\ SchedIdle /\ InitMatch /\ DebtIdle /\ EnergyIdle /\ MakeupIdle /\ RunsIdle /\ EngineIdle
    /\ ZoneIdle

SpecMatch == InitMatchSpec /\ [][NextMatch]_vars

-----------------------------------------------------------------------------
(* TimeDebtCalculator (SpecDebt)                                           *)

\* Sample durations are whole seconds; hour balances are floats.
SecondsPerHour == 3600
DaysPerWeek == 7

\* the longest sample list drawn freely
MaxSamples == 2

\* A sample's timestamp: missing (no key, None or ''), invalid (a string that
\* datetime.fromisoformat rejects, or an object without .date()), or a point in
\* time, of which calculate_current_debt reads the calendar date.
MissingTs == [kind |-> "missing", date |-> 0]
InvalidTs == [kind |-> "invalid", date |-> 0]
DateTs(d) == [kind |-> "ok", date |-> d]

Sample(ts, dur, prod) ==
    [timestamp |-> ts, duration |-> dur, productivity_score |-> prod]

Samples ==
    {Sample(ts, dur, prod) :
        ts \in {MissingTs, InvalidTs, DateTs(1), DateTs(2)},
        dur \in {0, 3600, 21600},
        prod \in {49, 50, 90}}

\* 7 days x 6 hours a day at productivity 90
ScenarioWeek == [d \in 1..7 |-> Sample(DateTs(d), 6 * SecondsPerHour, 90)]

\* the same week at productivity 20, 30 minutes a day (test_edge_cases)
LowWeek == [d \in 1..7 |-> Sample(DateTs(d), 1800, 20)]

\* 14 days whose durations add up to 288000 s, the 80 hours expected of them
NearTargetFortnight ==
    [d \in 1..14 |-> Sample(DateTs(d), IF d = 14 THEN 20577 ELSE 20571, 90)]

SampleLists ==
    SeqsUpTo(Samples, MaxSamples) \cup {ScenarioWeek, LowWeek, NearTargetFortnight}

\* the productivity threshold of line 233
ProductiveScore == 50
\* variant: the threshold is exclusive
counts_as_productive_exclusive(activity) ==
    /\ activity.duration # 0
    /\ activity.productivity_score > ProductiveScore
    /\ activity.timestamp.kind # "missing"

\* line 233: is the sample counted?
counts_as_productive(activity) ==
    /\ activity.duration # 0
    /\ activity.productivity_score >= ProductiveScore
    /\ activity.timestamp.kind # "missing"

\* lines 228-245: the loop; acc = [hours, days] are total_productive_hours and
\* productive_days.  Each counted sample adds the float duration / 3600 to the
\* running total.  A sample whose timestamp does not parse raises inside the
\* try block before either is updated.
RECURSIVE debt_loop(_, _)
debt_loop(data, acc) ==
    IF data = <<>> THEN acc
    ELSE LET activity == Head(data)
         IN  debt_loop(Tail(data),
                IF counts_as_productive(activity) /\ activity.timestamp.kind = "ok"
                THEN [hours |-> float_add(acc.hours,
                                    float_ratio(activity.duration, SecondsPerHour)),
                      days  |-> acc.days \cup {activity.timestamp.date}]
                ELSE acc)

\* self.daily_target = self.weekly_target / 7
daily_target_of(weekly) == float_ratio(weekly, DaysPerWeek)

\* TimeDebt(...) without last_calculated
TimeDebt(deficit, surplus, net, weekly) ==
    [deficit_hours |-> deficit, surplus_hours |-> surplus, net_balance |-> net,
     weekly_target |-> float_of_int(weekly),
     daily_target |-> daily_target_of(weekly)]
\* variant: the deficit is not clamped at 0
calculate_current_debt_unclamped(data, period, weekly) ==
    IF data = <<>> THEN TimeDebt(FloatZero, FloatZero, FloatZero, weekly)
    ELSE LET acc == debt_loop(data, [hours |-> FloatZero, days |-> {}])
             actual_days == IF acc.days # {} THEN Cardinality(acc.days) ELSE period
             expected_hours == float_mul(float_of_int(actual_days),
                                         daily_target_of(weekly))
             net_balance == float_sub(acc.hours, expected_hours)
         IN  TimeDebt(float_neg(net_balance), float_max(FloatZero, net_balance),
                      net_balance, weekly)

\* variant: no fall back to period_days when no day is productive
calculate_current_debt_no_fallback(data, period, weekly) ==
    IF data = <<>> THEN TimeDebt(FloatZero, FloatZero, FloatZero, weekly)
    ELSE LET acc == debt_loop(data, [hours |-> FloatZero, days |-> {}])
             actual_days == Cardinality(acc.days)
             expected_hours == float_mul(float_of_int(actual_days),
                                         daily_target_of(weekly))
             net_balance == float_sub(acc.hours, expected_hours)
         IN  TimeDebt(float_max(FloatZero, float_neg(net_balance)),
                      float_max(FloatZero, net_balance), net_balance, weekly)
\* calculate_current_debt(activity_data, period_days) with self.weekly_target:
\* expected_hours = actual_days * self.daily_target,
\* net_balance = total_productive_hours - expected_hours,
\* deficit_hours = max(0, -net_balance), surplus_hours = max(0, net_balance)
calculate_current_debt(data, period, weekly) ==
    IF data = <<>> THEN TimeDebt(FloatZero, FloatZero, FloatZero, weekly)
    ELSE LET acc == debt_loop(data, [hours |-> FloatZero, days |-> {}])
             actual_days == IF acc.days # {} THEN Cardinality(acc.days) ELSE period
             expected_hours == float_mul(float_of_int(actual_days),
                                         daily_target_of(weekly))
             net_balance == float_sub(acc.hours, expected_hours)
         IN  TimeDebt(float_max(FloatZero, float_neg(net_balance)),
                      float_max(FloatZero, net_balance), net_balance, weekly)

\* the horizons of project_future_debt
Horizons == {1, 3, 7, 14, 30}
\* variant: the horizon test is exclusive
project_future_debt_exclusive(current_debt, days_ahead) ==
    [days \in {h \in Horizons : h < days_ahead} |->
        float_add(current_debt.deficit_hours,
                  float_mul(float_div(current_debt.deficit_hours, float_of_int(7)),
                            float_of_int(days)))]

\* project_future_debt(current_debt, days_ahead): horizon -> projected deficit
\* deficit_hours + (deficit_hours / 7) * days
project_future_debt(current_debt, days_ahead) ==
    [days \in {h \in Horizons : h <= days_ahead} |->
        float_add(current_debt.deficit_hours,
                  float_mul(float_div(current_debt.deficit_hours, float_of_int(7)),
                            float_of_int(days)))]

InitDebt ==
    /\ activity_data \in SampleLists
    /\ period_days \in {7, 14}
    /\ weekly_target \in {35, 40}
    /\ debt = <<>> /\ projections = <<>> /\ dpc = "start"

CalculateCurrentDebt ==
    /\ dpc = "start"
    /\ debt' = calculate_current_debt(activity_data, period_days, weekly_target)
    /\ dpc' = "debt"
    /\ UNCHANGED <<activity_data, period_days, weekly_target, projections>>

ProjectFutureDebt ==
    /\ dpc = "debt"
    /\ \E days_ahead \in {0, 2, 7, 30} :
          projections' = [days_ahead |-> days_ahead,
                          values |-> project_future_debt(debt, days_ahead)]
    /\ dpc' = "projected"
    /\ UNCHANGED <<activity_data, period_days, weekly_target, debt>>

NextDebt ==
    \/ CalculateCurrentDebt /\ UNCHANGED <<schedVars, matchVars, energyVars, makeupVars, runs, engine, local_zone>>
    \/ ProjectFutureDebt /\ UNCHANGED <<schedVars, matchVars, energyVars, makeupVars, runs, engine, local_zone>>

InitDebtSpec ==
    /\ SchedIdle /\ MatchIdle /\ InitDebt /\ EnergyIdle /\ MakeupIdle /\ RunsIdle /\ EngineIdle
    /\ ZoneIdle

SpecDebt == InitDebtSpec /\ [][NextDebt]_vars

-----------------------------------------------------------------------------
(* EnergyProfileAnalyzer (SpecEnergy)                                       *)

\* A sample's timestamp as analyze_energy_patterns reads it: missing, invalid,
\* or a point in time with a calendar date and an hour of the day.  Date 1 is
\* a Monday.
MissingPoint == [kind |-> "missing", date |-> 0, hour |-> 0]
InvalidPoint == [kind |-> "invalid", date |-> 0, hour |-> 0]
PointTs(d, h) == [kind |-> "ok", date |-> d, hour |-> h]

\* datetime.weekday(): 0 = Monday .. 6 = Sunday
weekday(date) == (date - 1) % DaysPerWeek

EnergySample(ts, prod, focus) ==
    [timestamp |-> ts, duration |-> SecondsPerHour,
     productivity_score |-> prod, focus_score |-> focus]

\* one-hour samples on a Monday and a Saturday, in the morning, the afternoon
\* and the evening; a score of 0 stands for a missing score as well
EnergySamples ==
    {EnergySample(ts, prod, focus) :
        ts \in {MissingPoint, InvalidPoint, PointTs(1, 9), PointTs(1, 14),
                PointTs(6, 9), PointTs(6, 19)},
        prod \in {0, 40, 90},
        focus \in {0, 50, 100}}

EnergySampleLists == SeqsUpTo(EnergySamples, MaxSamples)

\* variant: the exception of a failed parse is not caught
sample_outcome_uncaught(activity) ==
    IF /\ activity.timestamp.kind # "missing"
       /\ activity.productivity_score # 0
       /\ activity.focus_score # 0
    THEN IF activity.timestamp.kind = "ok" THEN "added" ELSE "raised"
    ELSE "skipped"

\* variant: a timestamp that does not parse is read as hour 0 of date 0
sample_outcome_invalid_added(activity) ==
    IF /\ activity.timestamp.kind # "missing"
       /\ activity.productivity_score # 0
       /\ activity.focus_score # 0
    THEN "added"
    ELSE "skipped"
\* lines 93-114: what one iteration of the sample loop does.  "skipped": the
\* condition of line 97 is false; "caught": the try block raised and the
\* except clause continued; "added": both buckets got the score.
sample_outcome(activity) ==
    IF /\ activity.timestamp.kind # "missing"
       /\ activity.productivity_score # 0
       /\ activity.focus_score # 0
    THEN IF activity.timestamp.kind = "ok" THEN "added" ELSE "caught"
    ELSE "skipped"

\* line 108: energy_score = (productivity + focus) / 2, kept doubled
energy_score(activity) == activity.productivity_score + activity.focus_score

\* defaultdict(list)[key].append(score) on a dict kept as (key, scores) pairs
bucket_append(buckets, key, score) ==
    IF \E i \in DOMAIN buckets : buckets[i].key = key
    THEN [i \in DOMAIN buckets |->
            IF buckets[i].key = key
            THEN [key |-> key, scores |-> Append(buckets[i].scores, score)]
            ELSE buckets[i]]
    ELSE Append(buckets, [key |-> key, scores |-> <<score>>])

\* lines 89-90: the buckets of a call start empty
new_buckets(previous) == <<>>

\* variant: the position reached by the previous call is kept
kept_iterator(position) == IF position = 0 THEN 1 ELSE position

\* line 92: the for statement of a call starts at the first sample
new_iterator(position) == 1

\* _classify_energy_level(score) for score = num / den, den > 0
classify_energy_level(num, den) ==
    IF num >= 85 * den THEN PEAK
    ELSE IF num >= 70 * den THEN HIGH
    ELSE IF num >= 50 * den THEN MEDIUM
    ELSE LOW

\* lines 117-126: the level of each bucket's mean score (scores are doubled)
energy_levels(buckets) ==
    [i \in DOMAIN buckets |->
        [key |-> buckets[i].key,
         level |-> IF buckets[i].scores # <<>>
                   THEN classify_energy_level(
                            SumOver(DOMAIN buckets[i].scores, buckets[i].scores),
                            2 * Len(buckets[i].scores))
                   ELSE classify_energy_level(50, 1)]]

\* dict.get(key, default) on (key, level) pairs
level_get(levels, key, default) ==
    IF \E i \in DOMAIN levels : levels[i].key = key
    THEN levels[CHOOSE i \in DOMAIN levels : levels[i].key = key].level
    ELSE default

keys_of(levels) == [i \in DOMAIN levels |-> levels[i].key]

\* _find_peak_hours(hourly_energy)
find_peak_hours(hourly_energy) ==
    LET is_peak(e) == e.level \in {PEAK, HIGH}
    IN  keys_of(SelectSeq(hourly_energy, is_peak))

\* _find_low_energy_periods(hourly_energy)
find_low_energy_periods(hourly_energy) ==
    LET is_low(e) == e.level = LOW
    IN  keys_of(SelectSeq(hourly_energy, is_low))

\* variant: only PEAK hours are counted
determine_energy_type_peak_only(hourly_energy) ==
    LET strong(hours) ==
            Cardinality({hour \in hours :
                level_get(hourly_energy, hour, LOW) \in {PEAK}})
        morning_energy == strong(6..11)
        afternoon_energy == strong(12..17)
        evening_energy == strong(18..21)
        max_energy == Max(morning_energy, Max(afternoon_energy, evening_energy))
    IN  IF max_energy = morning_energy THEN "morning"
        ELSE IF max_energy = afternoon_energy THEN "afternoon"
        ELSE "evening"
\* _determine_energy_type(hourly_energy)
determine_energy_type(hourly_energy) ==
    LET strong(hours) ==
            Cardinality({hour \in hours :
                level_get(hourly_energy, hour, LOW) \in {HIGH, PEAK}})
        morning_energy == strong(6..11)
        afternoon_energy == strong(12..17)
        evening_energy == strong(18..21)
        max_energy == Max(morning_energy, Max(afternoon_energy, evening_energy))
    IN  IF max_energy = morning_energy THEN "morning"
        ELSE IF max_energy = afternoon_energy THEN "afternoon"
        ELSE "evening"

\* _analyze_weekly_rhythm(daily_energy): weekday_avg - weekend_avg is
\* (2 * weekday_sum - 5 * weekend_sum) / 10
analyze_weekly_rhythm(daily_energy) ==
    LET weekdays == {i \in DOMAIN daily_energy : daily_energy[i].key < 5}
        weekend == {i \in DOMAIN daily_energy : daily_energy[i].key >= 5}
        level == [i \in DOMAIN daily_energy |-> daily_energy[i].level]
        diff10 == 2 * SumOver(weekdays, level) - 5 * SumOver(weekend, level)
    IN  IF diff10 < 5 /\ -diff10 < 5 THEN "consistent"
        ELSE IF diff10 > 0 THEN "weekday_focused"
        ELSE "weekend_recovery"

\* variant: the default lists are derived from the default levels
get_default_energy_pattern_derived ==
    [hourly_energy_levels |-> [i \in 1..8 |-> [key |-> 8 + i, level |-> MEDIUM]],
     daily_energy_patterns |-> [i \in 1..7 |-> [key |-> i - 1, level |-> MEDIUM]],
     peak_hours |-> <<>>,
     low_energy_periods |-> <<>>,
     energy_type |-> "balanced",
     weekly_rhythm |-> "consistent"]
\* _get_default_energy_pattern()
get_default_energy_pattern ==
    [hourly_energy_levels |-> [i \in 1..8 |-> [key |-> 8 + i, level |-> MEDIUM]],
     daily_energy_patterns |-> [i \in 1..7 |-> [key |-> i - 1, level |-> MEDIUM]],
     peak_hours |-> <<10, 11, 14, 15>>,
     low_energy_periods |-> <<13, 16, 17>>,
     energy_type |-> "balanced",
     weekly_rhythm |-> "consistent"]

\* lines 128-135: the dict returned for a non-empty sample list
energy_profile(hourly, daily) ==
    LET hourly_energy == energy_levels(hourly)
        daily_energy == energy_levels(daily)
    IN  [hourly_energy_levels |-> hourly_energy,
         daily_energy_patterns |-> daily_energy,
         peak_hours |-> find_peak_hours(hourly_energy),
         low_energy_periods |-> find_low_energy_periods(hourly_energy),
         energy_type |-> determine_energy_type(hourly_energy),
         weekly_rhythm |-> analyze_weekly_rhythm(daily_energy)]

\* lines 92-114: the sample loop as a whole; acc = [hourly, daily] are
\* hourly_performance and daily_patterns
RECURSIVE energy_loop(_, _)
energy_loop(data, acc) ==
    IF data = <<>> THEN acc
    ELSE LET activity == Head(data)
         IN  energy_loop(Tail(data),
                IF sample_outcome(activity) = "added"
                THEN [hourly |-> bucket_append(acc.hourly, activity.timestamp.hour,
                                               energy_score(activity)),
                      daily  |-> bucket_append(acc.daily,
                                               weekday(activity.timestamp.date),
                                               energy_score(activity))]
                ELSE acc)

\* analyze_energy_patterns(activity_data): the dict returned
analyze_energy_patterns(data) ==
    IF data = <<>> THEN get_default_energy_pattern
    ELSE LET acc == energy_loop(data, [hourly |-> <<>>, daily |-> <<>>])
         IN  energy_profile(acc.hourly, acc.daily)
InitEnergy ==
    /\ energy_data \in EnergySampleLists
    /\ hourly_performance = <<>> /\ daily_patterns = <<>>
    /\ e_idx = 0 /\ epc = "start" /\ profile = NoResult
    /\ prev_profile = NoResult /\ data_debt = <<>>

\* lines 86-90: a call of analyze_energy_patterns, the first or a later one on
\* the same list; an empty list returns the default pattern at once
AnalyzeStart ==
    /\ epc \in {"start", "returned"}
    /\ IF energy_data = <<>>
       THEN /\ profile' = get_default_energy_pattern
            /\ prev_profile' = profile
            /\ epc' = "returned"
            /\ UNCHANGED <<hourly_performance, daily_patterns, e_idx>>
       ELSE /\ hourly_performance' = new_buckets(hourly_performance)
            /\ daily_patterns' = new_buckets(daily_patterns)
            /\ e_idx' = new_iterator(e_idx)
            /\ epc' = "loop"
            /\ UNCHANGED <<profile, prev_profile>>
    /\ UNCHANGED <<energy_data, data_debt>>

\* lines 92-114: one iteration of the sample loop
AnalyzeSample ==
    /\ epc = "loop" /\ e_idx <= Len(energy_data)
    /\ LET activity == energy_data[e_idx]
           outcome == sample_outcome(activity)
       IN  /\ IF outcome = "added"
              THEN /\ hourly_performance' =
                        bucket_append(hourly_performance,
                                      activity.timestamp.hour,
                                      energy_score(activity))
                   /\ daily_patterns' =
                        bucket_append(daily_patterns,
                                      weekday(activity.timestamp.date),
                                      energy_score(activity))
              ELSE UNCHANGED <<hourly_performance, daily_patterns>>
           /\ IF outcome = "raised"
              THEN epc' = "raised" /\ e_idx' = e_idx
              ELSE epc' = "loop" /\ e_idx' = e_idx + 1
    /\ UNCHANGED <<energy_data, profile, prev_profile, data_debt>>

\* lines 116-135: the loop is over; build and return the profile
AnalyzeReturn ==
    /\ epc = "loop" /\ e_idx > Len(energy_data)
    /\ profile' = energy_profile(hourly_performance, daily_patterns)
    /\ prev_profile' = profile
    /\ epc' = "returned"
    /\ UNCHANGED <<energy_data, hourly_performance, daily_patterns, e_idx,
                   data_debt>>

\* analyze_and_compensate line 510: calculate_current_debt on the same samples,
\* with the default period of 7 days and weekly target of 40 hours
CalculateDataDebt ==
    /\ epc = "returned"
    /\ data_debt' = calculate_current_debt(energy_data, 7, 40)
    /\ epc' = "debt"
    /\ UNCHANGED <<energy_data, hourly_performance, daily_patterns, e_idx,
                   profile, prev_profile>>

NextEnergy ==
    \/ AnalyzeStart /\ UNCHANGED <<schedVars, matchVars, debtVars, makeupVars, runs, engine, local_zone>>
    \/ AnalyzeSample /\ UNCHANGED <<schedVars, matchVars, debtVars, makeupVars, runs, engine, local_zone>>
    \/ AnalyzeReturn /\ UNCHANGED <<schedVars, matchVars, debtVars, makeupVars, runs, engine, local_zone>>
    \/ CalculateDataDebt /\ UNCHANGED <<schedVars, matchVars, debtVars, makeupVars, runs, engine, local_zone>>

InitEnergySpec ==
    /\ SchedIdle /\ MatchIdle /\ DebtIdle /\ InitEnergy /\ MakeupIdle /\ RunsIdle /\ EngineIdle
    /\ ZoneIdle

SpecEnergy == InitEnergySpec /\ [][NextEnergy]_vars

-----------------------------------------------------------------------------
(* TimeDebtCalculator.calculate_makeup_schedule (SpecMakeup)                *)

\* class SchedulePreference(Enum): the values
SchedulePreference == {"immediate", "delayed", "distributed", "flexible"}

\* the largest deficit drawn, in half hours
MaxDeficitHalves == 24

\* The deficits drawn: the whole half hours, and 0.9 h, 1.8 h and 33/7 h (the
\* deficit of one productive hour on one day), which are not binary fractions.
MakeupDeficits ==
    {float_ratio(h, 2) : h \in 0..MaxDeficitHalves}
    \cup {float_ratio(9, 10), float_ratio(18, 10), float_ratio(33, 7)}

MakeupDebts ==
    {TimeDebt(deficit, FloatZero, float_neg(deficit), 40) :
        deficit \in MakeupDeficits}

\* one entry of makeup_sessions
session(day_offset, hours, type, flexibility) ==
    [day_offset |-> day_offset, hours |-> hours,
     type |-> type, flexibility |-> flexibility]

\* lines 290-299: the IMMEDIATE loop from iteration day on
RECURSIVE immediate_loop(_, _, _, _, _)
immediate_loop(day, days_needed, daily_makeup, remaining_hours, sessions) ==
    IF day >= days_needed THEN sessions
    ELSE LET session_hours == float_min(daily_makeup, remaining_hours)
         IN  IF float_gt(session_hours, FloatZero)
             THEN immediate_loop(day + 1, days_needed, daily_makeup,
                      float_sub(remaining_hours, session_hours),
                      Append(sessions,
                             session(day + 1, session_hours,
                                     "intensive_makeup", float_ratio(3, 10))))
             ELSE immediate_loop(day + 1, days_needed, daily_makeup,
                                 remaining_hours, sessions)

\* lines 285-299: daily_makeup = min(2.0, remaining_hours / 3) and
\* days_needed = int(remaining_hours / daily_makeup) + 1
immediate_sessions(deficit) ==
    LET daily_makeup == float_min(float_of_int(2),
                                  float_div(deficit, float_of_int(3)))
        days_needed == float_int(float_div(deficit, daily_makeup)) + 1
    IN  immediate_loop(0, days_needed, daily_makeup, deficit, <<>>)

\* variant: a share of exactly half an hour is scheduled
distributed_sessions_inclusive(deficit) ==
    LET daily_makeup == float_div(deficit, float_of_int(14))
    IN  IF float_ge(daily_makeup, float_ratio(5, 10))
        THEN [day \in 1..14 |->
                 session(day, daily_makeup, "distributed_makeup",
                         float_ratio(7, 10))]
        ELSE <<>>

\* lines 301-312: daily_makeup = remaining_hours / 14, scheduled on each of 14
\* days if daily_makeup > 0.5
distributed_sessions(deficit) ==
    LET daily_makeup == float_div(deficit, float_of_int(14))
    IN  IF float_gt(daily_makeup, float_ratio(5, 10))
        THEN [day \in 1..14 |->
                 session(day, daily_makeup, "distributed_makeup",
                         float_ratio(7, 10))]
        ELSE <<>>

\* lines 314-324: daily_makeup = remaining_hours / 5 on day offsets 7..11
delayed_sessions(deficit) ==
    [i \in 1..5 |-> session(6 + i, float_div(deficit, float_of_int(5)),
                            "delayed_makeup", float_ratio(8, 10))]

\* calculate_makeup_schedule(debt, preference)
calculate_makeup_schedule(current_debt, pref) ==
    IF float_le(current_debt.deficit_hours, FloatZero) THEN <<>>
    ELSE IF pref = "immediate" THEN immediate_sessions(current_debt.deficit_hours)
    ELSE IF pref = "distributed"
         THEN distributed_sessions(current_debt.deficit_hours)
    ELSE IF pref = "delayed" THEN delayed_sessions(current_debt.deficit_hours)
    ELSE <<>>

\* user_preferences.get(key, default)
pref_get(prefs, key, default) ==
    IF key \in DOMAIN prefs THEN prefs[key] ELSE default

\* The preference dicts handed in: none, or one that sets max_daily_makeup to
\* 0.3, 0.5, 1.5 or 3.0 hours.
MakeupPreferences ==
    {EmptyDict} \cup
    {[k \in {"max_daily_makeup"} |-> float_ratio(c, 10)] : c \in {3, 5, 15, 30}}

\* the id f"debt_compensation_{i+1}"
debt_task_id(n) == "debt_compensation_" \o ToString(n)

\* the deadline of a debt task is timedelta(days=7) after the clock reading
\* taken when the task is made
DeadlineDays == 7

\* _create_debt_compensation_tasks(time_debt, user_preferences): the tasks
\* appended, in order.  estimated_duration is the float
\* chunk_hours = min(chunk_size, deficit_hours - (i * chunk_size)) of each i
\* in range(int(deficit_hours / chunk_size) + 1) for which it is > 0 (title,
\* flexibility and compensation_for, which no function reads, are left out).
\* datetime.now() is called once for each task appended (line 622): clock[k]
\* is the reading the k-th of these calls returns.
create_debt_compensation_tasks(time_debt, prefs, clock) ==
    IF float_gt(time_debt.deficit_hours, FloatZero)
    THEN LET chunk_size == pref_get(prefs, "max_daily_makeup", float_of_int(2))
             chunks_needed ==
                 float_int(float_div(time_debt.deficit_hours, chunk_size)) + 1
             remaining_debt(i) ==
                 float_sub(time_debt.deficit_hours,
                           float_mul(float_of_int(i), chunk_size))
             chunk_hours(i) == float_min(chunk_size, remaining_debt(i))
             kept == {i \in 0..(chunks_needed - 1) :
                         float_gt(chunk_hours(i), FloatZero)}
             pick(k) == CHOOSE i \in kept :
                            Cardinality({j \in kept : j < i}) = k - 1
         IN  [k \in 1..Cardinality(kept) |->
                 Task(debt_task_id(pick(k) + 1), chunk_hours(pick(k)), HIGH,
                      MEDIUM,
                      datetime_add(clock[k], timedelta_days(DeadlineDays)),
                      "work")]
    ELSE <<>>

\* A call reads the clock int(deficit_hours / chunk_size) + 1 times at most;
\* the largest deficit drawn is MaxDeficitHalves / 2 hours and the smallest
\* chunk 0.3 hours, so this many readings are enough.
MakeupReads == 2 * MaxDeficitHalves + 1

\* The clocks drawn show midnight at the first reading.
MakeupClocks ==
    {ticking_clock(at_hour(0, 0), step, MakeupReads) : step \in ClockSteps}

InitMakeup ==
    /\ makeup_debt \in MakeupDebts
    /\ preference \in SchedulePreference
    /\ user_preferences \in MakeupPreferences
    /\ makeup_clock \in MakeupClocks
    /\ makeup_schedule = <<>>
    /\ debt_tasks = <<>>
    /\ mpc = "start"

CalculateMakeupSchedule ==
    /\ mpc = "start"
    /\ makeup_schedule' = calculate_makeup_schedule(makeup_debt, preference)
    /\ mpc' = "returned"
    /\ UNCHANGED <<makeup_debt, preference, user_preferences, makeup_clock,
                   debt_tasks>>

\* lines 598-628
CreateDebtCompensationTasks ==
    /\ mpc = "start"
    /\ debt_tasks' = create_debt_compensation_tasks(makeup_debt, user_preferences,
                                                    makeup_clock)
    /\ mpc' = "tasks"
    /\ UNCHANGED <<makeup_debt, preference, user_preferences, makeup_clock,
                   makeup_schedule>>

NextMakeup ==
    \/ CalculateMakeupSchedule
          /\ UNCHANGED <<schedVars, matchVars, debtVars, energyVars, runs, engine, local_zone>>
    \/ CreateDebtCompensationTasks
          /\ UNCHANGED <<schedVars, matchVars, debtVars, energyVars, runs, engine, local_zone>>

InitMakeupSpec ==
    /\ SchedIdle /\ MatchIdle /\ DebtIdle /\ EnergyIdle /\ InitMakeup /\ RunsIdle /\ EngineIdle
    /\ ZoneIdle

SpecMakeup == InitMakeupSpec /\ [][NextMakeup]_vars

-----------------------------------------------------------------------------
(* Two generate_optimal_schedule invocations side by side (SpecRuns)       *)

\* runs.heap         the slot objects of both callers: id -> TimeSlot fields
\* runs.constructed  the same objects as their callers constructed them
\* runs.run[r]       the arguments, locals, position and result of run r

RunIds == {1, 2}

\* tasks and slots that leave a shortened slot behind
RunTasks ==
    { HourTask("t2", 3, HIGH, HIGH, 6, "work"),
      HourTask("t3", 1, HIGH, LOW,  6, "work") }
RunSlots ==
    { HourSlot(0, 4, HIGH, "work", 9),
      HourSlot(5, 7, HIGH, "work", 9) }

RunTaskLists == {ts \in SeqsUpTo(RunTasks, MaxTasks) :
                    \A i, j \in DOMAIN ts : i # j => ts[i] # ts[j]}
RunSlotLists == SeqsUpTo(RunSlots, MaxSlots)

\* the frame of an invocation that has not executed a statement yet
new_run(ts, slot_ids) ==
    [tasks |-> ts, available_slots |-> slot_ids,
     sorted_tasks |-> <<>>, sorted_slots |-> <<>>,
     schedule |-> EmptyDict, unscheduled_tasks |-> <<>>,
     idx |-> 0, pc |-> "start", result |-> NoResult]

\* variant: the candidate pool is kept on the scheduler object, where the
\* first run put it
pool_of_shared(rs, r) == rs[1].sorted_slots

\* line 355: sorted_slots is a local of the invocation
pool_of(rs, r) == rs[r].sorted_slots

\* lines 366-378 of a run: the schedule entry and the pool and slot objects
\* upd left by _update_slot_availability
run_place(run, task, best_slot, heap, upd) ==
    [run |-> [run EXCEPT
                 !.schedule = dict_set(run.schedule, task.id,
                                  schedule_entry(task, best_slot, heap)),
                 !.sorted_slots = upd.all_slots,
                 !.idx = run.idx + 1],
     heap |-> upd.slot_obj]

\* lines 364-380 of a run: one iteration of the task loop, best_slot being the
\* slot _find_best_slot returned
run_iteration(run, task, pool, heap, best_slot) ==
    IF best_slot # NoSlot
    THEN run_place(run, task, best_slot, heap,
                   update_slot_availability(best_slot, task.estimated_duration,
                                            pool, heap))
    ELSE [run |-> [run EXCEPT
                      !.unscheduled_tasks = Append(run.unscheduled_tasks, task),
                      !.idx = run.idx + 1],
          heap |-> heap]

\* the next step of run r (lines 347-388), on the frames rs and the heap
run_next(rs, r, heap) ==
    LET run == rs[r]
    IN  IF run.pc = "start"
        THEN [run |-> [run EXCEPT
                 !.sorted_tasks = sort_tasks(run.tasks),
                 !.sorted_slots = SortedBy(run.available_slots,
                     {p \in (DOMAIN run.available_slots)
                               \X (DOMAIN run.available_slots) :
                         slot_key_less(heap[run.available_slots[p[1]]],
                                       heap[run.available_slots[p[2]]])}),
                 !.idx = 1,
                 !.pc = "loop"],
              heap |-> heap]
        ELSE IF run.pc = "loop" /\ run.idx <= Len(run.sorted_tasks)
        THEN run_iteration(run, run.sorted_tasks[run.idx], pool_of(rs, r), heap,
                 find_best_slot(run.sorted_tasks[run.idx], pool_of(rs, r), heap))
        ELSE IF run.pc = "loop"
        THEN [run |-> [run EXCEPT
                 !.result =
                     [scheduled_tasks |-> run.schedule,
                      unscheduled_tasks |-> run.unscheduled_tasks,
                      total_scheduled_hours |->
                          total_scheduled_hours(run.tasks, run.schedule),
                      schedule_efficiency |->
                          calculate_overall_efficiency(run.schedule),
                      recommendations |->
                          generate_scheduling_recommendations(
                              run.schedule, run.unscheduled_tasks)],
                 !.pc = "done"],
              heap |-> heap]
        ELSE [run |-> run, heap |-> heap]

\* run r alone: k steps of r from the frames rs and the heap
RECURSIVE run_alone(_, _, _, _)
run_alone(rs, r, heap, k) ==
    IF k = 0 THEN [run |-> rs[r], heap |-> heap]
    ELSE LET n == run_next(rs, r, heap)
         IN  run_alone([rs EXCEPT ![r] = n.run], r, n.heap, k - 1)

\* the steps run has executed
steps_taken(run) ==
    IF run.pc = "start" THEN 0
    ELSE IF run.pc = "loop" THEN run.idx
    ELSE Len(run.sorted_tasks) + 2

\* each caller constructs its own slot objects and its own task list
InitRuns ==
    \E ts1 \in RunTaskLists, ts2 \in RunTaskLists,
       sl1 \in RunSlotLists, sl2 \in RunSlotLists :
        runs = [heap |-> sl1 \o sl2,
                constructed |-> sl1 \o sl2,
                run |-> [r \in RunIds |->
                    IF r = 1
                    THEN new_run(ts1, [i \in 1..Len(sl1) |-> i])
                    ELSE new_run(ts2, [i \in 1..Len(sl2) |-> Len(sl1) + i])]]

RunTakes(r) ==
    \E n \in {run_next(runs.run, r, runs.heap)} :
        runs' = [runs EXCEPT !.run[r] = n.run, !.heap = n.heap]

\* lines 347-362 of one of the runs
SortRun == \E r \in RunIds : runs.run[r].pc = "start" /\ RunTakes(r)

\* lines 364-380 of one of the runs: one iteration of its task loop
StepRun ==
    \E r \in RunIds :
        /\ runs.run[r].pc = "loop"
        /\ runs.run[r].idx <= Len(runs.run[r].sorted_tasks)
        /\ RunTakes(r)

\* lines 382-388 of one of the runs
ReturnRun ==
    \E r \in RunIds :
        /\ runs.run[r].pc = "loop"
        /\ runs.run[r].idx > Len(runs.run[r].sorted_tasks)
        /\ RunTakes(r)

NextRuns ==
    \/ SortRun /\ UNCHANGED <<schedVars, matchVars, debtVars, energyVars, makeupVars, engine, local_zone>>
    \/ StepRun /\ UNCHANGED <<schedVars, matchVars, debtVars, energyVars, makeupVars, engine, local_zone>>
    \/ ReturnRun /\ UNCHANGED <<schedVars, matchVars, debtVars, energyVars, makeupVars, engine, local_zone>>

\* every deadline drawn for the runs is in January 1970, where the zone
\* moves all timestamps by the same offset
InitRunsSpec ==
    /\ SchedIdle /\ MatchIdle /\ DebtIdle /\ EnergyIdle /\ MakeupIdle /\ InitRuns
    /\ EngineIdle
    /\ local_zone = NewYork

SpecRuns == InitRunsSpec /\ [][NextRuns]_vars

-----------------------------------------------------------------------------
(* CompensationEngine.analyze_and_compensate (SpecEngine)                  *)

\* Python's round(num / den) for den > 0: halves go to the even neighbour
round_half_even(num, den) ==
    LET q == num \div den
        r == num % den
    IN  IF 2 * r < den THEN q
        ELSE IF 2 * r > den THEN q + 1
        ELSE IF q % 2 = 0 THEN q ELSE q + 1

\* _get_energy_for_period(start_hour, end_hour, energy_profile): the levels of
\* the dict are EnergyLevel members, so the isinstance test holds
get_energy_for_period(start_hour, end_hour, profile_dict) ==
    LET hourly_energy == profile_dict.hourly_energy_levels
        hours == start_hour..(end_hour - 1)
        value == [hour \in hours |-> level_get(hourly_energy, hour, MEDIUM)]
    IN  IF hours # {}
        THEN round_half_even(SumOver(hours, value), Cardinality(hours))
        ELSE MEDIUM

\* _generate_available_slots(energy_profile, user_preferences): for each
\* day_offset in range(7) the work slot and then the evening slot of
\* current_date = datetime.now().date() + timedelta(days=day_offset).  The
\* clock is read once for each day_offset (line 550): clock[day_offset + 1] is
\* the reading of that iteration.
generate_available_slots(profile_dict, prefs, clock) ==
    LET work_start == pref_get(prefs, "work_hours_start", 9)
        work_end == pref_get(prefs, "work_hours_end", 17)
    IN  [i \in 1..(2 * DaysPerWeek) |->
            LET day_offset == (i - 1) \div 2
                current_date == datetime_date(clock[day_offset + 1]) + day_offset
            IN  IF i % 2 = 1
                THEN Slot(at_hour(current_date, work_start),
                          at_hour(current_date, work_end),
                          get_energy_for_period(work_start, work_end, profile_dict),
                          "work", float_of_int(work_end - work_start),
                          float_ratio(9, 10))
                ELSE Slot(at_hour(current_date, 19), at_hour(current_date, 21),
                          get_energy_for_period(19, 21, profile_dict),
                          "personal", float_of_int(2), float_ratio(6, 10))]

\* _generate_compensation_insights: which of its lines are emitted
generate_compensation_insights(profile_dict, time_debt, sched) ==
    (IF float_gt(time_debt.deficit_hours, float_of_int(4)) THEN {"deficit"}
     ELSE IF float_gt(time_debt.surplus_hours, float_of_int(2)) THEN {"surplus"}
     ELSE {})
    \cup (IF profile_dict.peak_hours # <<>> THEN {"peak_hours"} ELSE {})
    \cup (IF DOMAIN sched.scheduled_tasks # {} THEN {"scheduled"} ELSE {})
    \cup (IF Len(sched.unscheduled_tasks) > 0 THEN {"unscheduled"} ELSE {})

\* _generate_compensation_recommendations: which of its lines are emitted
generate_compensation_recommendations(profile_dict, time_debt, sched) ==
    (IF float_gt(time_debt.deficit_hours, FloatZero)
     THEN {"makeup_time", "high_productivity"}
     ELSE {})
    \cup (IF profile_dict.energy_type = "morning" THEN {"before_11"}
          ELSE IF profile_dict.energy_type = "evening" THEN {"after_3"}
          ELSE {})
    \cup (IF float_lt(sched.schedule_efficiency, float_ratio(7, 10))
          THEN {"adjust_timing"} ELSE {})
    \cup (IF sched.unscheduled_tasks # <<>> THEN {"block_time"} ELSE {})

\* _suggest_next_actions: which of its lines are emitted
suggest_next_actions(sched, time_debt) ==
    (IF DOMAIN sched.scheduled_tasks # {} THEN {"next"} ELSE {})
    \cup (IF float_gt(time_debt.deficit_hours, FloatZero)
          THEN {"review", "block_calendar"} ELSE {})
    \cup {"review_energy"}

\* The sample lists handed in: none; one sample whose timestamp does not
\* parse; one or two productive hours on a Monday; six of them, which is more
\* than the daily target.
EngineData ==
    { <<>>,
      <<EnergySample(InvalidPoint, 90, 100)>>,
      <<EnergySample(PointTs(1, 9), 90, 100)>>,
      <<EnergySample(PointTs(1, 9), 90, 100), EnergySample(PointTs(1, 14), 90, 100)>>,
      [i \in 1..6 |-> EnergySample(PointTs(1, 8 + i), 90, 100)] }

\* The user's tasks are drawn from these; their ids are pairwise distinct.
EngineTaskCatalog ==
    { OpenTask("debt_compensation_1", 1, MEDIUM, MEDIUM, "work"),
      Task("report", float_of_int(2), URGENT, HIGH, at_hour(1, 12), "work"),
      OpenTask("gym", 1, LOW, LOW, "health") }

EngineTaskLists ==
    {ts \in SeqsUpTo(EngineTaskCatalog, MaxTasks) :
        \A i, j \in DOMAIN ts : i # j => ts[i].id # ts[j].id}

\* The preference dicts handed in: none, a larger chunk, other work hours.
EnginePreferences ==
    { EmptyDict,
      [k \in {"max_daily_makeup"} |-> float_of_int(3)],
      [k \in {"work_hours_start", "work_hours_end"} |->
          IF k = "work_hours_start" THEN 10 ELSE 12] }

\* The clock readings of one call of analyze_and_compensate, in the order of
\* its datetime.now() calls: one by calculate_current_debt (last_calculated,
\* lines 219 and 260), one for each of the 7 days of
\* _generate_available_slots, one for each debt task.
DebtReads == 1

\* the debt of a week of 40 hours is at most 40 hours, the smallest chunk
\* drawn 2 hours: int(40 / 2) + 1 debt tasks at most
EngineReads == DebtReads + DaysPerWeek + (40 \div 2 + 1)

\* when the call is made: in the morning, in the evening, or 3 microseconds
\* before midnight
EngineNow ==
    {at_hour(0, 8), at_hour(0, 20), nat_sub(at_hour(1, 0), nat_of_int(3))}

EngineClocks ==
    {ticking_clock(now, step, EngineReads) : now \in EngineNow, step \in ClockSteps}

InitEngine ==
    \E data \in EngineData, ts \in EngineTaskLists,
       prefs \in EnginePreferences, clock \in EngineClocks :
        engine = [pc |-> "start", activity_data |-> data, tasks |-> ts,
                  user_preferences |-> prefs, clock |-> clock]

\* lines 509-524: the analysis, the slots, the debt tasks, and the entry into
\* generate_optimal_schedule with all_tasks = tasks + debt_tasks
EngineAnalyze ==
    /\ engine.pc = "start"
    /\ \E profile_dict \in {analyze_energy_patterns(engine.activity_data)},
          time_debt \in {calculate_current_debt(engine.activity_data, 7, 40)} :
       \E slots \in
              {generate_available_slots(profile_dict, engine.user_preferences,
                   SubSeq(engine.clock, DebtReads + 1, DebtReads + DaysPerWeek))},
          debt_tasks_made \in
              {create_debt_compensation_tasks(time_debt, engine.user_preferences,
                   SubSeq(engine.clock, DebtReads + DaysPerWeek + 1,
                          Len(engine.clock)))} :
           /\ engine' = [pc |-> "scheduling",
                         activity_data |-> engine.activity_data,
                         tasks |-> engine.tasks,
                         user_preferences |-> engine.user_preferences,
                         clock |-> engine.clock,
                         energy_profile |-> profile_dict,
                         time_debt |-> time_debt,
                         debt_tasks |-> debt_tasks_made]
           /\ tasks' = engine.tasks \o debt_tasks_made
           /\ available_slots' = [i \in DOMAIN slots |-> i]
           /\ slot_obj' = slots
           /\ given_slots' = slots
    /\ sorted_tasks' = <<>> /\ sorted_slots' = <<>>
    /\ schedule' = EmptyDict /\ unscheduled_tasks' = <<>> /\ history' = <<>>
    /\ idx' = 0 /\ pc' = "start" /\ result' = NoResult

\* lines 526-534: the dict returned
EngineReturn ==
    /\ engine.pc = "scheduling" /\ pc = "done"
    /\ engine' = [pc |-> "returned",
                  activity_data |-> engine.activity_data,
                  tasks |-> engine.tasks,
                  user_preferences |-> engine.user_preferences,
                  clock |-> engine.clock,
                  energy_profile |-> engine.energy_profile,
                  time_debt |-> engine.time_debt,
                  compensation_tasks |-> engine.debt_tasks,
                  schedule |-> result,
                  insights |->
                      generate_compensation_insights(engine.energy_profile,
                                                     engine.time_debt, result),
                  recommendations |->
                      generate_compensation_recommendations(engine.energy_profile,
                                                            engine.time_debt, result),
                  next_actions |-> suggest_next_actions(result, engine.time_debt)]
    /\ UNCHANGED schedVars

NextEngine ==
    \/ EngineAnalyze /\ UNCHANGED <<matchVars, debtVars, energyVars, makeupVars, runs, local_zone>>
    \/ SortInputs /\ UNCHANGED <<matchVars, debtVars, energyVars, makeupVars, runs, engine, local_zone>>
    \/ PlaceTask /\ UNCHANGED <<matchVars, debtVars, energyVars, makeupVars, runs, engine, local_zone>>
    \/ LeaveUnscheduled
          /\ UNCHANGED <<matchVars, debtVars, energyVars, makeupVars, runs, engine, local_zone>>
    \/ Return /\ UNCHANGED <<matchVars, debtVars, energyVars, makeupVars, runs, engine, local_zone>>
    \/ EngineReturn /\ UNCHANGED <<matchVars, debtVars, energyVars, makeupVars, runs, local_zone>>

\* every deadline of the call is in January 1970, as the clock is
InitEngineSpec ==
    /\ SchedIdle /\ MatchIdle /\ DebtIdle /\ EnergyIdle /\ MakeupIdle /\ RunsIdle
    /\ InitEngine
    /\ local_zone = NewYork

SpecEngine == InitEngineSpec /\ [][NextEngine]_vars

-----------------------------------------------------------------------------
(* Properties                                                              *)

DistinctIds(ts) == \A i, j \in DOMAIN ts : i # j => ts[i].id # ts[j].id

InScheduled(t, sched) == t.id \in DOMAIN sched /\ sched[t.id].task = t
InUnscheduled(t, unsched) == \E j \in DOMAIN unsched : unsched[j] = t

\* C1: when generate_optimal_schedule returns for a task list with pairwise
\* distinct ids, every input task is in exactly one of scheduled_tasks (under
\* its id) and unscheduled_tasks.
C1_ExactlyOnePlace ==
    (pc = "done" /\ DistinctIds(tasks)) =>
        \A i \in DOMAIN tasks :
            InScheduled(tasks[i], result.scheduled_tasks)
                # InUnscheduled(tasks[i], result.unscheduled_tasks)

\* a returned run of two tasks with distinct ids, one placed and one not
C1_Witness ==
    /\ pc = "done" /\ DistinctIds(tasks) /\ Len(tasks) = 2
    /\ Cardinality(DOMAIN result.scheduled_tasks) = 1
    /\ Len(result.unscheduled_tasks) = 1

DeadlineScenarioTask == HourTask("t1", 2, URGENT, HIGH, 1, "work")
DeadlineScenarioSlot == HourSlot(0, 4, HIGH, "work", 9)

\* C2: every scheduled entry whose task has a deadline ends at start_time +
\* estimated_duration, no later than the deadline; and a 2h task with deadline
\* now+1h whose only slot starts now and lasts 4h ends up unscheduled although
\* duration, energy and context match.
C2_DeadlineRespected ==
    /\ \A k \in DOMAIN schedule :
          schedule[k].task.deadline # NoDeadline =>
              /\ schedule[k].end_time
                    = datetime_add(schedule[k].start_time,
                          timedelta_hours(schedule[k].task.estimated_duration))
              /\ datetime_le(schedule[k].end_time, schedule[k].task.deadline)
    /\ (/\ pc = "done"
        /\ Len(available_slots) = 1
        /\ slot_obj[1].end_time = DeadlineScenarioSlot.end_time
        /\ slot_obj[1].context_type = DeadlineScenarioSlot.context_type
        /\ \E i \in DOMAIN tasks : tasks[i] = DeadlineScenarioTask)
       => InUnscheduled(DeadlineScenarioTask, result.unscheduled_tasks)

\* the scenario next to a task whose deadline the same slot meets
C2_Witness ==
    /\ pc = "done"
    /\ Len(available_slots) = 1
    /\ slot_obj[1].end_time = DeadlineScenarioSlot.end_time
    /\ slot_obj[1].context_type = DeadlineScenarioSlot.context_type
    /\ InUnscheduled(DeadlineScenarioTask, result.unscheduled_tasks)
    /\ float_ge(slot_obj[1].duration_hours,
                DeadlineScenarioTask.estimated_duration)
    /\ \E k \in DOMAIN schedule : schedule[k].task.deadline # NoDeadline

EnergyMatchCalled == m_out # <<>> /\ m_out.op = "energy_match"

\* C3 as stated: for all 16 pairs of levels the energy match lies in [0, 1].
C3_InUnitInterval ==
    EnergyMatchCalled =>
        /\ float_le(FloatZero, m_out.energy_match)
        /\ float_le(m_out.energy_match, float_of_int(1))

\* C3 (amended): for all 16 pairs of levels the energy match lies in
\* [-0.3, 1]; it is negative for exactly one pair, required PEAK with
\* available LOW, where it is -0.3 up to the rounding of the float
\* subtraction (between -0.3 and -0.2999).
C3_Range ==
    EnergyMatchCalled =>
        /\ float_le(float_ratio(-3, 10), m_out.energy_match)
        /\ float_le(m_out.energy_match, float_of_int(1))
        /\ float_lt(m_out.energy_match, FloatZero) <=>
              (m_task.required_energy = PEAK /\ m_slot.available_energy = LOW)
        /\ float_lt(m_out.energy_match, FloatZero) =>
              float_lt(m_out.energy_match, float_ratio(-2999, 10000))

C3_Witness ==
    /\ EnergyMatchCalled
    /\ m_task.required_energy = PEAK /\ m_slot.available_energy = LOW
    /\ float_lt(m_out.energy_match, FloatZero)

\* C4 as stated: whenever available >= required the energy match lies between
\* 0.6 and 1.0, so the slot passes the 0.6 acceptance bar.
C4_EnoughEnergyPasses ==
    (EnergyMatchCalled /\ m_slot.available_energy >= m_task.required_energy) =>
        /\ float_le(EnergyBar, m_out.energy_match)
        /\ float_le(m_out.energy_match, float_of_int(1))

\* C4 (amended): whenever available exceeds required by at most two levels the
\* energy match lies between 0.6 and 1.0 and passes the acceptance bar; for
\* required LOW with available PEAK (three levels) it is 0.4 up to the
\* rounding of the float subtraction (between 0.3999 and 0.4001) and fails
\* the bar.
C4_UpToTwoLevelsPasses ==
    (EnergyMatchCalled /\ m_slot.available_energy >= m_task.required_energy) =>
        IF m_slot.available_energy - m_task.required_energy <= 2
        THEN /\ float_le(EnergyBar, m_out.energy_match)
             /\ float_le(m_out.energy_match, float_of_int(1))
        ELSE /\ float_lt(float_ratio(3999, 10000), m_out.energy_match)
             /\ float_lt(m_out.energy_match, float_ratio(4001, 10000))
             /\ float_lt(m_out.energy_match, EnergyBar)

C4_Witness ==
    /\ EnergyMatchCalled
    /\ m_task.required_energy = LOW /\ m_slot.available_energy = PEAK
    /\ float_lt(m_out.energy_match, EnergyBar)

\* C5: the TimeDebt returned by calculate_current_debt, for an empty or
\* non-empty sample list, has deficit_hours >= 0, surplus_hours >= 0, at most
\* one of them non-zero, and net_balance = surplus_hours - deficit_hours.
C5_DebtParts ==
    dpc # "start" =>
        /\ float_ge(debt.deficit_hours, FloatZero)
        /\ float_ge(debt.surplus_hours, FloatZero)
        /\ (debt.deficit_hours = FloatZero \/ debt.surplus_hours = FloatZero)
        /\ debt.net_balance = float_sub(debt.surplus_hours, debt.deficit_hours)

\* a deficit computed from samples of which some count
C5_Witness ==
    /\ dpc = "debt" /\ Len(activity_data) = 2
    /\ \E i \in DOMAIN activity_data : counts_as_productive(activity_data[i])
    /\ float_gt(debt.deficit_hours, FloatZero) /\ debt.surplus_hours = FloatZero

\* C6: project_future_debt returns a value for exactly the horizons N in
\* {1, 3, 7, 14, 30} with N <= days_ahead, each equal to the float
\* deficit_hours + (deficit_hours / 7) * N.
C6_Projection ==
    dpc = "projected" =>
        /\ DOMAIN projections.values
              = {N \in {1, 3, 7, 14, 30} : N <= projections.days_ahead}
        /\ \A N \in DOMAIN projections.values :
              projections.values[N]
                  = float_add(debt.deficit_hours,
                              float_mul(float_div(debt.deficit_hours,
                                                  float_of_int(7)),
                                        float_of_int(N)))

C6_Witness ==
    /\ dpc = "projected" /\ projections.days_ahead = 7
    /\ float_gt(debt.deficit_hours, FloatZero)
    /\ DOMAIN projections.values = {1, 3, 7}

\* C7: given an empty slot list, generate_optimal_schedule returns every input
\* task in unscheduled_tasks, an empty scheduled_tasks, total_scheduled_hours 0
\* and schedule_efficiency 0.
C7_NoSlots ==
    (pc = "done" /\ available_slots = <<>>) =>
        /\ Len(result.unscheduled_tasks) = Len(tasks)
        /\ \A i \in DOMAIN tasks : InUnscheduled(tasks[i], result.unscheduled_tasks)
        /\ DOMAIN result.scheduled_tasks = {}
        /\ result.total_scheduled_hours = FloatZero
        /\ result.schedule_efficiency = FloatZero

C7_Witness ==
    /\ pc = "done" /\ available_slots = <<>> /\ Len(tasks) = 2
    /\ Len(result.unscheduled_tasks) = 2

\* C8: at every point of a run every slot in the candidate pool has
\* duration_hours > 0; a slot whose duration equals that of the task placed in
\* it leaves the pool.
C8_PoolSlotsPositive ==
    \A j \in DOMAIN sorted_slots :
        float_gt(slot_obj[sorted_slots[j]].duration_hours, FloatZero)

\* a task has been placed in a slot of exactly its duration, which left the pool
C8_Witness ==
    \E k \in DOMAIN schedule :
        /\ slot_obj[schedule[k].slot].duration_hours
              = schedule[k].task.estimated_duration
        /\ slot_obj[schedule[k].slot].start_time = schedule[k].start_time
        /\ \A j \in DOMAIN sorted_slots : sorted_slots[j] # schedule[k].slot

\* the order the claim C9 states, written out: a deadline before no deadline and
\* the earlier deadline first, then the higher priority, then the higher energy
C9_NotAfter(a, b) ==
    \/ (a.deadline # NoDeadline /\ b.deadline = NoDeadline)
    \/ /\ a.deadline # NoDeadline /\ b.deadline # NoDeadline
       /\ datetime_lt(a.deadline, b.deadline)
    \/ /\ a.deadline = b.deadline
       /\ \/ a.priority > b.priority
          \/ (a.priority = b.priority /\ a.required_energy >= b.required_energy)

\* C9: tasks are tried in ascending order of (deadline, none last; higher
\* priority first; higher required energy first): a task is matched against
\* the pool before every task that comes after it in that order, so of two
\* tasks with the same deadline and priority the HIGH-energy one is tried
\* before the LOW-energy one; every task is tried once.
C9_ProcessingOrder ==
    /\ \A i, j \in DOMAIN history :
          i < j => C9_NotAfter(history[i], history[j])
    /\ pc = "done" => Len(history) = Len(tasks)

\* two tasks whose deadlines, if both have one, are in the order of their
\* timestamps
C9_TimestampsAgree(a, b) ==
    (a.deadline # NoDeadline /\ b.deadline # NoDeadline)
        => nat_cmp(a.deadline, b.deadline)
               = float_cmp(datetime_timestamp(local_zone, a.deadline),
                           datetime_timestamp(local_zone, b.deadline))

\* the order of C9 among the tasks whose timestamps are in the order of their
\* deadlines
C9_OrderWhereTimestampsAgree ==
    /\ \A i, j \in DOMAIN history :
          (i < j /\ C9_TimestampsAgree(history[i], history[j]))
              => C9_NotAfter(history[i], history[j])
    /\ pc = "done" => Len(history) = Len(tasks)

\* the caller lists the LOW-energy task first; the HIGH-energy one is tried first
C9_EnergyFirst ==
    /\ pc = "done" /\ Len(tasks) = 2
    /\ tasks[1].deadline = tasks[2].deadline /\ tasks[1].priority = tasks[2].priority
    /\ tasks[1].required_energy = LOW /\ tasks[2].required_energy = HIGH
    /\ history = <<tasks[2], tasks[1]>>

\* the productive hours and the days of claim C10, computed from the whole
\* list at once: a sample counts when its productivity_score is >= 50 (and its
\* timestamp parses: a sample without a parseable timestamp is skipped)
C10_Counted(data) ==
    {i \in DOMAIN data : /\ data[i].productivity_score >= 50
                         /\ data[i].timestamp.kind = "ok"
                         /\ data[i].duration > 0}

\* the sum of duration / 3600 over the counted samples, in list order
C10_ProductiveHours(data) ==
    LET counted == {i \in C10_Counted(data) : TRUE}
        nth(k) == CHOOSE i \in counted : Cardinality({j \in counted : j < i}) = k - 1
    IN  float_sum([k \in 1..Cardinality(counted) |->
                      float_ratio(data[nth(k)].duration, 3600)])

C10_ActualDays(data, period) ==
    LET dates == {data[i].timestamp.date : i \in C10_Counted(data)}
    IN  IF dates = {} THEN period ELSE Cardinality(dates)

\* C10: calculate_current_debt counts as productive hours the sum of
\* duration/3600 over the samples with productivity_score >= 50 and sets
\* net_balance = productive hours - actual_days * (weekly_target / 7); for 7
\* distinct days of 6 productive hours and weekly_target 40 it returns
\* net_balance = +2, surplus_hours = 2, deficit_hours = 0.
C10_NetBalance ==
    (dpc # "start" /\ activity_data # <<>>) =>
        /\ debt.net_balance
              = float_sub(C10_ProductiveHours(activity_data),
                          float_mul(float_of_int(C10_ActualDays(activity_data,
                                                                period_days)),
                                    float_ratio(weekly_target, 7)))
        /\ (activity_data = ScenarioWeek /\ weekly_target = 40) =>
              /\ debt.net_balance = float_of_int(2)
              /\ debt.surplus_hours = float_of_int(2)
              /\ debt.deficit_hours = FloatZero

C10_Witness ==
    /\ dpc = "debt" /\ activity_data = ScenarioWeek /\ weekly_target = 40
    /\ debt.net_balance = float_of_int(2)

C11_HourlyMedium(p) ==
    /\ Len(p.hourly_energy_levels) = 8
    /\ \A i \in 1..8 :
          /\ p.hourly_energy_levels[i].key = 8 + i
          /\ p.hourly_energy_levels[i].level = MEDIUM

\* C11 as stated: analyze_energy_patterns on an empty sample list returns
\* MEDIUM for the hours from 9 to 17, an empty peak_hours and an empty
\* low_energy_periods, energy_type "balanced" and weekly_rhythm "consistent".
C11_EmptyExtremes ==
    (energy_data = <<>> /\ profile # NoResult) =>
        /\ epc # "raised"
        /\ C11_HourlyMedium(profile)
        /\ profile.peak_hours = <<>>
        /\ profile.low_energy_periods = <<>>
        /\ profile.energy_type = "balanced"
        /\ profile.weekly_rhythm = "consistent"

\* C11 (amended): analyze_energy_patterns on an empty sample list does not
\* raise and returns the fixed default profile: MEDIUM for the hours 9..16 and
\* for the seven weekdays, peak_hours [10, 11, 14, 15], low_energy_periods
\* [13, 16, 17], energy_type "balanced" and weekly_rhythm "consistent".
C11_DefaultProfile ==
    (energy_data = <<>> /\ profile # NoResult) =>
        /\ epc # "raised"
        /\ C11_HourlyMedium(profile)
        /\ Len(profile.daily_energy_patterns) = 7
        /\ \A i \in 1..7 :
              /\ profile.daily_energy_patterns[i].key = i - 1
              /\ profile.daily_energy_patterns[i].level = MEDIUM
        /\ profile.peak_hours = <<10, 11, 14, 15>>
        /\ profile.low_energy_periods = <<13, 16, 17>>
        /\ profile.energy_type = "balanced"
        /\ profile.weekly_rhythm = "consistent"

\* a call on the empty list has returned
C11_Witness == energy_data = <<>> /\ epc = "returned" /\ profile # NoResult

C12_Usable(activity) ==
    /\ activity.timestamp.kind = "ok"
    /\ activity.productivity_score # 0
    /\ activity.focus_score # 0

C12_Scores(buckets, key) ==
    IF \E i \in DOMAIN buckets : buckets[i].key = key
    THEN Len(buckets[CHOOSE i \in DOMAIN buckets : buckets[i].key = key].scores)
    ELSE 0

C12_ParseableOnly(data) ==
    LET parseable(activity) == activity.timestamp.kind = "ok"
    IN  SelectSeq(data, parseable)

\* C12: analyze_energy_patterns and calculate_current_debt, as called by
\* analyze_and_compensate, never raise on a sample whose timestamp is missing
\* or does not parse.  Such a sample adds nothing: each hour bucket and each
\* weekday bucket holds one score per sample processed so far that has a
\* parseable timestamp and both scores, and the balance of the debt is the one
\* that the productive hours and productive dates of the parseable samples
\* alone give.  The samples after it are still processed.
C12_BadTimestampsSkipped ==
    /\ epc # "raised"
    /\ epc \in {"loop", "returned", "debt"} /\ energy_data # <<>> =>
          LET done == {i \in 1..(e_idx - 1) : C12_Usable(energy_data[i])}
          IN  /\ e_idx <= Len(energy_data) + 1
              /\ epc # "loop" => e_idx = Len(energy_data) + 1
              /\ \A hour \in 0..23 :
                    C12_Scores(hourly_performance, hour)
                      = Cardinality({i \in done :
                                        energy_data[i].timestamp.hour = hour})
              /\ \A day \in 0..6 :
                    C12_Scores(daily_patterns, day)
                      = Cardinality({i \in done :
                            weekday(energy_data[i].timestamp.date) = day})
    /\ epc = "debt" /\ energy_data # <<>> =>
          LET acc == debt_loop(C12_ParseableOnly(energy_data),
                               [hours |-> FloatZero, days |-> {}])
              actual_days == IF acc.days # {} THEN Cardinality(acc.days) ELSE 7
          IN  data_debt.net_balance
                = float_sub(acc.hours,
                            float_mul(float_of_int(actual_days),
                                      float_ratio(40, 7)))

\* both functions have returned for a list whose first sample has a timestamp
\* that does not parse and whose second sample was counted by both
C12_Witness ==
    /\ epc = "debt" /\ Len(energy_data) = 2
    /\ energy_data[1].timestamp.kind = "invalid"
    /\ energy_data[1].productivity_score = 90
    /\ energy_data[1].focus_score = 100
    /\ C12_Usable(energy_data[2])
    /\ energy_data[2].productivity_score = 90
    /\ Len(hourly_performance) = 1
    /\ data_debt.net_balance = float_sub(float_of_int(1), float_ratio(40, 7))

C15_TotalHours(sessions) ==
    float_sum([i \in DOMAIN sessions |-> sessions[i].hours])

\* C15 as stated: calculate_makeup_schedule with IMMEDIATE returns, for a
\* deficit > 0, sessions on the consecutive day offsets 1, 2, ..., each with
\* 0 < hours <= 2 and flexibility 0.3, whose hours add up to exactly the
\* deficit; for a deficit <= 0 it returns the empty list.
C15_ImmediateExhausts ==
    (mpc = "returned" /\ preference = "immediate") =>
        IF float_le(makeup_debt.deficit_hours, FloatZero)
        THEN makeup_schedule = <<>>
        ELSE /\ makeup_schedule # <<>>
             /\ \A i \in DOMAIN makeup_schedule :
                   /\ makeup_schedule[i].day_offset = i
                   /\ float_gt(makeup_schedule[i].hours, FloatZero)
                   /\ float_le(makeup_schedule[i].hours, float_of_int(2))
                   /\ makeup_schedule[i].flexibility = float_ratio(3, 10)
             /\ C15_TotalHours(makeup_schedule) = makeup_debt.deficit_hours

C16_Fourteen(sessions, deficit) ==
    /\ Len(sessions) = 14
    /\ \A i \in 1..14 :
          /\ sessions[i].day_offset = i
          /\ sessions[i].hours = float_div(deficit, float_of_int(14))

\* C16 as stated: calculate_makeup_schedule with DISTRIBUTED returns one
\* session of deficit/14 hours for each day offset 1..14 whenever deficit/14 is
\* at least 0.5 hours, and no session only when deficit/14 is below 0.5 hours.
C16_AtLeastHalfHour ==
    (mpc = "returned" /\ preference = "distributed") =>
        IF float_ge(float_div(makeup_debt.deficit_hours, float_of_int(14)),
                    float_ratio(5, 10))
        THEN C16_Fourteen(makeup_schedule, makeup_debt.deficit_hours)
        ELSE makeup_schedule = <<>>

\* C16 (amended): calculate_makeup_schedule with DISTRIBUTED returns one
\* session of deficit/14 hours and flexibility 0.7 for each day offset 1..14
\* whenever deficit/14 is more than 0.5 hours, and no session when deficit/14
\* is 0.5 hours or less.
C16_MoreThanHalfHour ==
    (mpc = "returned" /\ preference = "distributed") =>
        IF float_gt(float_div(makeup_debt.deficit_hours, float_of_int(14)),
                    float_ratio(5, 10))
        THEN /\ C16_Fourteen(makeup_schedule, makeup_debt.deficit_hours)
             /\ \A i \in 1..14 :
                   makeup_schedule[i].flexibility = float_ratio(7, 10)
        ELSE makeup_schedule = <<>>

\* a deficit of exactly 7 hours, a share of exactly half an hour: no session
C16_Witness ==
    /\ mpc = "returned" /\ preference = "distributed"
    /\ makeup_debt.deficit_hours = float_of_int(7)
    /\ makeup_schedule = <<>>

C14_Fresh ==
    [q \in RunIds |->
        new_run(runs.run[q].tasks, runs.run[q].available_slots)]

\* C14: with the steps of two generate_optimal_schedule invocations on
\* independently constructed task lists and slot lists interleaved in any
\* order, each invocation is at every moment where it would be after the
\* same number of its own steps run alone: the same locals, the same
\* scheduled and unscheduled result, the same state of its own slot objects.
C14_AsWhenAlone ==
    runs # <<>> =>
        \A r \in RunIds :
            LET alone == run_alone(C14_Fresh, r, runs.constructed,
                                   steps_taken(runs.run[r]))
                own == {runs.run[r].available_slots[i] :
                            i \in DOMAIN runs.run[r].available_slots}
            IN  /\ runs.run[r] = alone.run
                /\ \A id \in own : runs.heap[id] = alone.heap[id]

\* both runs are in the middle of their task loops, each has placed its first
\* task in a slot of its own and shortened it, and each has a task left
C14_Witness ==
    /\ runs # <<>>
    /\ \A r \in RunIds :
          /\ runs.run[r].pc = "loop" /\ runs.run[r].idx = 2
          /\ Len(runs.run[r].sorted_tasks) = 2
          /\ DOMAIN runs.run[r].schedule # {}
          /\ \E i \in DOMAIN runs.run[r].available_slots :
                runs.heap[runs.run[r].available_slots[i]]
                    # runs.constructed[runs.run[r].available_slots[i]]

C17_Satisfies(task, slot) ==
    /\ float_ge(slot.duration_hours, task.estimated_duration)
    /\ float_ge(calculate_energy_match(task.required_energy,
                                       slot.available_energy),
                float_ratio(6, 10))
    /\ check_context_compatibility(task.context, slot.context_type)
    /\ task.deadline # NoDeadline =>
          datetime_le(datetime_add(slot.start_time,
                                   timedelta_hours(task.estimated_duration)),
                      task.deadline)

\* C17: the iteration of the task loop that processes a task appends it to
\* unscheduled_tasks if and only if no slot of the current pool has
\* duration_hours >= the task's duration, energy_match >= 0.6, a compatible
\* context and (if the task has a deadline) start_time + duration <= deadline;
\* otherwise it stores the task with the first slot in pool order that has all
\* of them.  The entries stored under other ids and the tasks already in
\* unscheduled_tasks stay as they are.
C17_FirstSatisfyingSlot ==
    [][ (pc = "loop" /\ idx <= Len(sorted_tasks) /\ idx' = idx + 1) =>
          LET task == sorted_tasks[idx]
              ok == {j \in DOMAIN sorted_slots :
                        C17_Satisfies(task, slot_obj[sorted_slots[j]])}
          IN  /\ (unscheduled_tasks' = Append(unscheduled_tasks, task))
                    <=> (ok = {})
              /\ ok = {} => schedule' = schedule
              /\ ok # {} =>
                    /\ unscheduled_tasks' = unscheduled_tasks
                    /\ task.id \in DOMAIN schedule'
                    /\ schedule'[task.id].task = task
                    /\ schedule'[task.id].slot
                          = sorted_slots[CHOOSE j \in ok : \A k \in ok : j <= k]
              /\ \A k \in DOMAIN schedule \ {task.id} :
                    k \in DOMAIN schedule' /\ schedule'[k] = schedule[k]
      ]_vars

\* two tasks processed with a pool of two slots: one was stored with the
\* second slot of the pool, which it shortened, and the other found no slot
C17_Witness ==
    /\ pc = "loop" /\ idx = 3
    /\ Len(unscheduled_tasks) = 1
    /\ Cardinality(DOMAIN schedule) = 1
    /\ Len(sorted_slots) = 2
    /\ \E k \in DOMAIN schedule : schedule[k].slot = sorted_slots[2]

\* C18 as stated: the pool is scanned in the order (quality_score descending,
\* available_energy descending, duration_hours ascending) throughout a run, so
\* whenever a task is placed, no other slot of the pool with the quality_score
\* and available_energy of the chosen slot satisfies all acceptance conditions
\* for the task and has a smaller current duration_hours.
C18_SmallestAmongTies ==
    [][ (/\ pc = "loop" /\ idx <= Len(sorted_tasks) /\ idx' = idx + 1
         /\ unscheduled_tasks' = unscheduled_tasks) =>
          LET task == sorted_tasks[idx]
              chosen == schedule'[task.id].slot
          IN  \A j \in DOMAIN sorted_slots :
                  LET other == slot_obj[sorted_slots[j]]
                  IN  (/\ sorted_slots[j] # chosen
                       /\ other.quality_score = slot_obj[chosen].quality_score
                       /\ other.available_energy
                             = slot_obj[chosen].available_energy
                       /\ C17_Satisfies(task, other))
                      => float_ge(other.duration_hours,
                                  slot_obj[chosen].duration_hours)
      ]_vars

\* C19 as stated: a step that places a task in a slot longer than the task
\* advances the slot's start_time by the task's duration and shrinks its
\* duration_hours by the same amount; no step changes an end_time; and after
\* every step duration_hours = end_time - start_time holds for every slot of
\* the pool, that is, start_time + timedelta(hours=duration_hours) is the
\* slot's end_time (the input slots are constructed with it).
C19_SlotConsumed ==
    [][ /\ \A id \in DOMAIN slot_obj :
              slot_obj'[id].end_time = slot_obj[id].end_time
        /\ (/\ pc = "loop" /\ idx <= Len(sorted_tasks) /\ idx' = idx + 1
            /\ unscheduled_tasks' = unscheduled_tasks) =>
              LET task == sorted_tasks[idx]
                  chosen == schedule'[task.id].slot
              IN  float_gt(slot_obj[chosen].duration_hours,
                           task.estimated_duration) =>
                      /\ slot_obj'[chosen].start_time
                            = datetime_add(slot_obj[chosen].start_time,
                                  timedelta_hours(task.estimated_duration))
                      /\ slot_obj'[chosen].duration_hours
                            = float_sub(slot_obj[chosen].duration_hours,
                                        task.estimated_duration)
                      /\ \E j \in DOMAIN sorted_slots' : sorted_slots'[j] = chosen
        /\ \A j \in DOMAIN sorted_slots' :
              datetime_add(slot_obj'[sorted_slots'[j]].start_time,
                  timedelta_hours(slot_obj'[sorted_slots'[j]].duration_hours))
                = slot_obj'[sorted_slots'[j]].end_time
      ]_vars

C20_SlotContext(entry) == slot_obj[entry.slot].context_type

\* C20: every scheduled entry pairs a task context with a slot context_type
\* that the table allows: work with work or mixed, personal with personal or
\* mixed, health with personal, health or mixed, admin with personal, work or
\* mixed; a task of any other context is only in a slot whose context_type
\* equals its context.
C20_ContextTable ==
    \A k \in DOMAIN schedule :
        LET task_context == schedule[k].task.context
            slot_context == C20_SlotContext(schedule[k])
        IN  /\ task_context = "work" => slot_context \in {"work", "mixed"}
            /\ task_context = "personal" => slot_context \in {"personal", "mixed"}
            /\ task_context = "health" =>
                  slot_context \in {"personal", "health", "mixed"}
            /\ task_context = "admin" =>
                  slot_context \in {"personal", "work", "mixed"}
            /\ task_context \notin {"work", "personal", "health", "admin"} =>
                  slot_context = task_context

\* an admin task stored with a work slot next to an errand task stored with an
\* errand slot
C20_Witness ==
    /\ \E k \in DOMAIN schedule :
          /\ schedule[k].task.context = "admin"
          /\ C20_SlotContext(schedule[k]) = "work"
    /\ \E k \in DOMAIN schedule :
          /\ schedule[k].task.context = "errand"
          /\ C20_SlotContext(schedule[k]) = "errand"

\* expected_hours is seen in the returned net_balance =
\* total_productive_hours - expected_hours: the balance that actual_days gives
C21_NetBalance(actual_days) ==
    float_sub(debt_loop(activity_data, [hours |-> FloatZero, days |-> {}]).hours,
              float_mul(float_of_int(actual_days),
                        float_ratio(weekly_target, 7)))

C21_Days(dates) == IF dates = {} THEN period_days ELSE Cardinality(dates)

\* C21 as stated: expected_hours is actual_days * daily_target with
\* actual_days the number of distinct calendar dates of the samples, whatever
\* their productivity_score, and period_days only when no sample carries a
\* date.
C21_AllDates ==
    (dpc # "start" /\ activity_data # <<>>) =>
        debt.net_balance
          = C21_NetBalance(
              C21_Days({activity_data[i].timestamp.date :
                          i \in {j \in DOMAIN activity_data :
                                    activity_data[j].timestamp.kind = "ok"}}))

\* C21 (amended): expected_hours is actual_days * daily_target with
\* actual_days the number of distinct calendar dates of the samples that are
\* counted as productive (non-zero duration, productivity_score >= 50, a
\* timestamp that parses), and period_days when no sample is counted.
C21_ProductiveDates ==
    (dpc # "start" /\ activity_data # <<>>) =>
        debt.net_balance
          = C21_NetBalance(
              C21_Days({activity_data[i].timestamp.date :
                          i \in {j \in DOMAIN activity_data :
                                    /\ activity_data[j].timestamp.kind = "ok"
                                    /\ activity_data[j].duration # 0
                                    /\ activity_data[j].productivity_score >= 50}}))

\* two dated samples on different dates, one below the productivity
\* threshold: one day is expected
C21_Witness ==
    /\ dpc = "debt" /\ Len(activity_data) = 2
    /\ activity_data[1].timestamp = DateTs(1)
    /\ activity_data[2].timestamp = DateTs(2)
    /\ activity_data[1].productivity_score = 90
    /\ activity_data[1].duration = SecondsPerHour
    /\ activity_data[2].productivity_score = 49
    /\ activity_data[2].duration = SecondsPerHour
    /\ debt.net_balance = C21_NetBalance(1)

C22_At(hour) ==
    {i \in DOMAIN energy_data : /\ energy_data[i].timestamp.kind = "ok"
                                /\ energy_data[i].timestamp.hour = hour}

C22_Bucket(buckets, key) ==
    IF \E i \in DOMAIN buckets : buckets[i].key = key
    THEN buckets[CHOOSE i \in DOMAIN buckets : buckets[i].key = key].scores
    ELSE <<>>

\* C22 as stated: for a non-empty sample list, every sample with a parseable
\* timestamp and scores in [0, 100] contributes (productivity_score +
\* focus_score) / 2 to the bucket of its hour (scores are kept doubled), and
\* each hour's level in hourly_energy_levels is the classification (>= 85 PEAK,
\* >= 70 HIGH, >= 50 MEDIUM, else LOW) of the mean of all such scores for that
\* hour.
C22_EverySampleCounts ==
    (epc \in {"returned", "debt"} /\ energy_data # <<>>) =>
        \A hour \in 0..23 :
            LET at == C22_At(hour)
                total == SumOver(at, [i \in at |->
                            energy_data[i].productivity_score
                              + energy_data[i].focus_score])
                n == Cardinality(at)
                bucket == C22_Bucket(hourly_performance, hour)
            IN  /\ Len(bucket) = n
                /\ SumOver(DOMAIN bucket, bucket) = total
                /\ n > 0 =>
                      level_get(profile.hourly_energy_levels, hour, 0)
                        = IF total >= 85 * 2 * n THEN PEAK
                          ELSE IF total >= 70 * 2 * n THEN HIGH
                          ELSE IF total >= 50 * 2 * n THEN MEDIUM
                          ELSE LOW

\* the sum of the level ordinals of a range of hours, an hour without samples
\* counting as LOW
C23_OrdinalSum(hours) ==
    SumOver(hours, [hour \in hours |->
                       level_get(profile.hourly_energy_levels, hour, LOW)])

\* the number of hours of a range whose level is HIGH or PEAK
C23_StrongHours(hours) ==
    Cardinality({hour \in hours :
        level_get(profile.hourly_energy_levels, hour, LOW) \in {HIGH, PEAK}})

C23_First(morning, afternoon, evening) ==
    IF morning >= afternoon /\ morning >= evening THEN "morning"
    ELSE IF afternoon >= evening THEN "afternoon"
    ELSE "evening"

\* C23 as stated: for a non-empty sample list, energy_type is the hour range
\* (morning 6-12, afternoon 12-18, evening 18-22) with the highest mean
\* EnergyLevel ordinal over its hours; ties go to morning, then afternoon.
\* The means are compared over the common denominator 12.
C23_HighestMeanOrdinal ==
    (epc \in {"returned", "debt"} /\ energy_data # <<>>) =>
        profile.energy_type
          = C23_First(2 * C23_OrdinalSum(6..11), 2 * C23_OrdinalSum(12..17),
                      3 * C23_OrdinalSum(18..21))

\* C23 (amended): for a non-empty sample list, energy_type is the hour range
\* (morning 6-12, afternoon 12-18, evening 18-22) with the largest number of
\* hours whose level is HIGH or PEAK; ties go to morning, then afternoon.
C23_MostStrongHours ==
    (epc \in {"returned", "debt"} /\ energy_data # <<>>) =>
        profile.energy_type
          = C23_First(C23_StrongHours(6..11), C23_StrongHours(12..17),
                      C23_StrongHours(18..21))

\* hour 9 is HIGH and hour 14 is PEAK: one strong hour each, morning wins
C23_Witness ==
    /\ epc = "returned" /\ Len(energy_data) = 2
    /\ level_get(profile.hourly_energy_levels, 9, LOW) = HIGH
    /\ level_get(profile.hourly_energy_levels, 14, LOW) = PEAK
    /\ profile.energy_type = "morning"

\* 0.4 * energy_match + 0.3 * min(1, duration_hours / task duration)
\* + 0.3 * quality_score
C24_Score(task, slot) ==
    LET fit == float_div(slot.duration_hours, task.estimated_duration)
        capped == IF float_lt(fit, float_of_int(1)) THEN fit ELSE float_of_int(1)
    IN  float_add(
            float_add(
                float_mul(float_ratio(4, 10),
                          calculate_energy_match(task.required_energy,
                                                 slot.available_energy)),
                float_mul(float_ratio(3, 10), capped)),
            float_mul(float_ratio(3, 10), slot.quality_score))

\* the keys of a schedule, in the order its entries were stored
C24_Keys(sched) ==
    [i \in 1..Cardinality(DOMAIN sched) |->
        (CHOOSE k \in DOMAIN sched : sched[k].inserted = i)]

\* C24: the step that stores an entry gives it the efficiency_score
\* 0.4 * energy_match + 0.3 * min(1, slot.duration_hours / task duration)
\* + 0.3 * slot.quality_score, computed with the duration the slot has before
\* the task's hours are taken from it; and the schedule_efficiency returned is
\* the arithmetic mean of the entries' scores, 0 when there is no entry.
C24_EfficiencyAtMatchTime ==
    [][ /\ (/\ pc = "loop" /\ idx <= Len(sorted_tasks) /\ idx' = idx + 1
            /\ unscheduled_tasks' = unscheduled_tasks) =>
              LET task == sorted_tasks[idx]
                  entry == schedule'[task.id]
              IN  entry.efficiency_score = C24_Score(task, slot_obj[entry.slot])
        /\ pc' = "done" =>
              LET keys == C24_Keys(schedule')
                  total == float_sum([i \in DOMAIN keys |->
                                         schedule'[keys[i]].efficiency_score])
                  mean == result'.schedule_efficiency
              IN  IF keys = <<>> THEN mean = FloatZero
                  ELSE mean = float_div(total, float_of_int(Len(keys)))
      ]_vars

\* a returned run with two entries, one of them in a slot that was longer than
\* the task and is now shorter than it
C24_Witness ==
    /\ pc = "done"
    /\ Cardinality(DOMAIN result.scheduled_tasks) = 2
    /\ \E k \in DOMAIN schedule :
          /\ float_lt(slot_obj[schedule[k].slot].duration_hours,
                      schedule[k].task.estimated_duration)
          /\ float_gt(slot_obj[schedule[k].slot].duration_hours, FloatZero)
          /\ schedule[k].efficiency_score
                = C24_Score(schedule[k].task,
                            [slot_obj[schedule[k].slot] EXCEPT
                                !.duration_hours = float_of_int(4)])


-----------------------------------------------------------------------------
(* _create_debt_compensation_tasks                                         *)

\* the chunk size of the call: max_daily_makeup, 2 hours when it is not set
C25_Chunk == pref_get(user_preferences, "max_daily_makeup", float_of_int(2))

\* sum(task.estimated_duration for task in debt_tasks)
C25_Sum(ts) == float_sum([k \in DOMAIN ts |-> ts[k].estimated_duration])

\* C25 as stated: for a positive deficit the tasks returned are numbered
\* 1..N, every duration is in (0, c], every duration but the last is c, and
\* the durations sum to exactly the deficit; for a deficit of 0 no task is
\* returned.
C25_ChunksCoverDeficit ==
    mpc = "tasks" =>
        IF float_gt(makeup_debt.deficit_hours, FloatZero)
        THEN /\ \A k \in DOMAIN debt_tasks :
                   /\ debt_tasks[k].id = debt_task_id(k)
                   /\ float_gt(debt_tasks[k].estimated_duration, FloatZero)
                   /\ float_le(debt_tasks[k].estimated_duration, C25_Chunk)
                   /\ k < Len(debt_tasks) =>
                          debt_tasks[k].estimated_duration = C25_Chunk
             /\ C25_Sum(debt_tasks) = makeup_debt.deficit_hours
        ELSE debt_tasks = <<>>


-----------------------------------------------------------------------------
(* Scheduled intervals                                                     *)

\* the slots handed in are pairwise disjoint as [start_time, end_time) and
\* each has duration_hours = end_time - start_time
C26_DisjointInput ==
    /\ \A i \in DOMAIN given_slots :
           datetime_add(given_slots[i].start_time,
                        timedelta_hours(given_slots[i].duration_hours))
               = given_slots[i].end_time
    /\ \A i, j \in DOMAIN given_slots :
           i # j => \/ datetime_le(given_slots[i].end_time, given_slots[j].start_time)
                    \/ datetime_le(given_slots[j].end_time, given_slots[i].start_time)

\* the hours of the entries stored with slot s, added in the order the
\* entries were stored
C26_HoursIn(s) ==
    LET in_slot(k) == schedule[k].slot = s
        placed == SelectSeq(C24_Keys(schedule), in_slot)
    IN  float_sum([i \in DOMAIN placed |->
                      schedule[placed[i]].task.estimated_duration])

\* C26 as stated: when the slots handed in are pairwise disjoint and each
\* ends timedelta(hours=duration_hours) after its start, the intervals of the
\* scheduled entries are pairwise disjoint, each lies inside the interval its
\* slot had when the call began, and the hours placed in a slot are at most
\* the duration the slot had then.
C26_EntriesInsideSlots ==
    C26_DisjointInput =>
        /\ \A k \in DOMAIN schedule :
               /\ datetime_le(given_slots[schedule[k].slot].start_time,
                              schedule[k].start_time)
               /\ datetime_le(schedule[k].end_time,
                              given_slots[schedule[k].slot].end_time)
        /\ \A k, l \in DOMAIN schedule :
               k # l => \/ datetime_le(schedule[k].end_time, schedule[l].start_time)
                        \/ datetime_le(schedule[l].end_time, schedule[k].start_time)
        /\ \A s \in DOMAIN given_slots :
               float_le(C26_HoursIn(s), given_slots[s].duration_hours)


-----------------------------------------------------------------------------
(* Energy of the scheduled entries                                         *)

\* available_energy of the entry's slot minus required_energy of its task
C27_Surplus(entry) ==
    slot_obj[entry.slot].available_energy - entry.task.required_energy

\* C27: every scheduled entry sits in a slot whose energy is 0, 1 or 2 levels
\* above what its task requires (never below, and never PEAK for a LOW task),
\* and its stored energy_match is 0.6, 0.8 or 1.0.
C27_EnergyWindow ==
    \A k \in DOMAIN schedule :
        /\ C27_Surplus(schedule[k]) \in {0, 1, 2}
        /\ schedule[k].energy_match
              = CASE C27_Surplus(schedule[k]) = 0 -> float_of_int(1)
                  [] C27_Surplus(schedule[k]) = 1 -> float_ratio(8, 10)
                  [] C27_Surplus(schedule[k]) = 2 -> float_ratio(6, 10)

\* a returned schedule holds an entry two levels above its task's need
\* (energy_match 0.6) and one at exactly the required level (1.0)
C27_Witness ==
    /\ pc = "done"
    /\ \E k, l \in DOMAIN schedule :
          /\ C27_Surplus(schedule[k]) = 2
          /\ schedule[k].energy_match = float_ratio(6, 10)
          /\ C27_Surplus(schedule[l]) = 0
          /\ schedule[l].energy_match = float_of_int(1)


-----------------------------------------------------------------------------
(* What a run changes in its inputs                                        *)

\* the slot ids still in the candidate pool
C28_InPool == {sorted_slots[j] : j \in DOMAIN sorted_slots}

\* C28 as stated: the caller's slot list keeps its members and their order, a
\* slot still in the pool has only been advanced and shortened, and a slot
\* that was used up has the start_time and duration_hours it was handed in
\* with.
C28_UsedUpKeepsOriginal ==
    pc \in {"loop", "done"} =>
        /\ available_slots = [i \in 1..Len(given_slots) |-> i]
        /\ \A s \in DOMAIN slot_obj :
              IF s \in C28_InPool
              THEN /\ datetime_le(given_slots[s].start_time, slot_obj[s].start_time)
                   /\ float_le(slot_obj[s].duration_hours,
                               given_slots[s].duration_hours)
              ELSE /\ slot_obj[s].start_time = given_slots[s].start_time
                   /\ slot_obj[s].duration_hours = given_slots[s].duration_hours

\* the slot record without the two fields a run may change
C28_Fixed(slot) == [slot EXCEPT !.start_time = <<>>, !.duration_hours = FloatZero]

\* C28 (amended): no step changes the caller's task list, a task record, or
\* the members and order of the caller's slot list, and of a slot record only
\* start_time and duration_hours ever change.  A step changes a slot record
\* only when it places a task of fewer hours than the slot has left, and then
\* advances start_time and reduces duration_hours by the task's hours; a step
\* that places a task of exactly the hours left takes the slot out of the pool
\* and leaves its record as it was before that step.
C28_OnlyPartlyUsedSlotsChange ==
    [][ /\ tasks' = tasks
        /\ available_slots' = available_slots
        /\ pc # "start" => sorted_tasks' = sorted_tasks
        /\ DOMAIN slot_obj' = DOMAIN slot_obj
        /\ \A s \in DOMAIN slot_obj : C28_Fixed(slot_obj'[s]) = C28_Fixed(slot_obj[s])
        /\ IF pc = "loop" /\ idx' = idx + 1 /\ unscheduled_tasks' = unscheduled_tasks
           THEN LET task == sorted_tasks[idx]
                    chosen == schedule'[task.id].slot
                    used == task.estimated_duration
                IN  /\ \A s \in DOMAIN slot_obj \ {chosen} : slot_obj'[s] = slot_obj[s]
                    /\ IF float_gt(slot_obj[chosen].duration_hours, used)
                       THEN /\ slot_obj'[chosen].start_time
                                = datetime_add(slot_obj[chosen].start_time,
                                               timedelta_hours(used))
                            /\ slot_obj'[chosen].duration_hours
                                = float_sub(slot_obj[chosen].duration_hours, used)
                            /\ sorted_slots' = sorted_slots
                       ELSE /\ slot_obj'[chosen] = slot_obj[chosen]
                            /\ chosen \in C28_InPool
                            /\ chosen \notin {sorted_slots'[j] : j \in DOMAIN sorted_slots'}
           ELSE slot_obj' = slot_obj
      ]_vars

\* a slot was advanced by one task and then used up by another: it is out of
\* the pool, and its record shows neither the interval it was handed in with
\* nor an empty one
C28_Witness ==
    /\ pc = "done"
    /\ \E s \in DOMAIN slot_obj :
          /\ s \notin C28_InPool
          /\ datetime_lt(given_slots[s].start_time, slot_obj[s].start_time)
          /\ float_gt(slot_obj[s].duration_hours, FloatZero)
          /\ float_lt(slot_obj[s].duration_hours, given_slots[s].duration_hours)


-----------------------------------------------------------------------------
(* Samples whose timestamp does not parse                                  *)

\* the sample list without the samples whose timestamp does not parse
C29_Parsed(data) ==
    SelectSeq(data, LAMBDA activity : activity.timestamp.kind # "invalid")

C29_HasUnparseable ==
    \E i \in DOMAIN energy_data : energy_data[i].timestamp.kind = "invalid"

\* C29 as stated: for every sample list, the profile and the debt are those of
\* the list without its unparseable samples, also when none is left.
C29_SameAsRemoved ==
    epc = "debt" =>
        /\ profile = analyze_energy_patterns(C29_Parsed(energy_data))
        /\ data_debt = calculate_current_debt(C29_Parsed(energy_data), 7, 40)

\* C29 (amended): when a sample is left after removing the unparseable ones,
\* the profile and the debt are those of the list without them; a list of
\* unparseable samples only gives the results of a non-empty list without a
\* usable sample: empty levels, no peak or low hours, energy_type "morning",
\* rhythm "consistent", and a deficit of 7 days of daily target.
C29_SameWhenSomeRemain ==
    epc = "debt" =>
        IF C29_Parsed(energy_data) # <<>> \/ energy_data = <<>>
        THEN /\ profile = analyze_energy_patterns(C29_Parsed(energy_data))
             /\ data_debt = calculate_current_debt(C29_Parsed(energy_data), 7, 40)
        ELSE /\ profile = [hourly_energy_levels |-> <<>>,
                           daily_energy_patterns |-> <<>>,
                           peak_hours |-> <<>>,
                           low_energy_periods |-> <<>>,
                           energy_type |-> "morning",
                           weekly_rhythm |-> "consistent"]
             /\ data_debt = TimeDebt(float_of_int(40), FloatZero,
                                     float_of_int(-40), 40)

\* a list with an unparseable sample and a sample that was added to the
\* buckets has been analysed and its debt calculated
C29_Witness ==
    /\ epc = "debt"
    /\ C29_HasUnparseable
    /\ profile.hourly_energy_levels # <<>>
    /\ data_debt.surplus_hours = FloatZero
    /\ float_lt(data_debt.deficit_hours, float_of_int(40))


-----------------------------------------------------------------------------
(* The combined task list of analyze_and_compensate                        *)

\* all_tasks = tasks + debt_tasks of the returned call
C30_AllTasks == engine.tasks \o engine.compensation_tasks

\* the sum of the estimated_duration of the scheduled entries' tasks
C30_EntryHours ==
    LET sched == engine.schedule.scheduled_tasks
        keys == C24_Keys(sched)
    IN  float_sum([i \in DOMAIN keys |-> sched[keys[i]].task.estimated_duration])

\* C30: when analyze_and_compensate has returned for user tasks with pairwise
\* distinct ids, the ids of the user tasks and the debt tasks together are
\* pairwise distinct, the scheduled entries and the unscheduled tasks are as
\* many as the user tasks and the compensation tasks, and
\* total_scheduled_hours is the sum of the scheduled entries' durations.
C30_EveryTaskAccounted ==
    engine.pc = "returned" =>
        /\ \A i, j \in DOMAIN C30_AllTasks :
               i # j => C30_AllTasks[i].id # C30_AllTasks[j].id
        /\ Cardinality(DOMAIN engine.schedule.scheduled_tasks)
               + Len(engine.schedule.unscheduled_tasks)
             = Len(engine.tasks) + Len(engine.compensation_tasks)
        /\ engine.schedule.total_scheduled_hours = C30_EntryHours

====
